---- MODULE Spec2Model ----
(***************************************************************************)
(* FRED ingestion service (data_ingestion/fred_integration_service.py)     *)
(* with its transformers and the PostgreSQL tables of database_setup.py.   *)
(*                                                                         *)
(* Workers are concurrent callers of FredIngestionService.ingest_series.   *)
(* The database is modelled at READ COMMITTED: a statement sees the        *)
(* committed rows plus the writes its own transaction has flushed; a       *)
(* flushed write stays private to its transaction until COMMIT.            *)
(***************************************************************************)
EXTENDS Integers, Sequences, FiniteSets, TLC

\* ------------------------------------------------------------------ bounds
MaxRuns == 2      \* ingest_series calls started in one behaviour
MaxBatch == 2     \* raw observation records returned by one fetch
MaxSeries == 3    \* series_ids handed to sync_multiple_series in one behaviour
MaxSyncs == 2     \* sync_multiple_series calls started in one behaviour
MaxRecords == 3   \* raw records handed to transform_observations called on its own

\* ------------------------------------------------------------ value domains
Workers == {1, 2}
SeriesIds == {"GDP", "UNRATE"}

\* Python None / SQL NULL, and a present value x.
None == <<>>
Some(x) == <<x>>

\* Raw FRED strings and what they parse to (strptime '%Y-%m-%d', Decimal(str)).
DateTable == [s \in {"2024-01-01", "2024-04-01", "2025-08-07", "2025-09-07"} |->
                CASE s = "2024-01-01" -> 1
                  [] s = "2024-04-01" -> 2
                  [] s = "2025-08-07" -> 3
                  [] s = "2025-09-07" -> 4]
DecimalTable == [s \in {"0", "100", "105"} |->
                CASE s = "0" -> 0
                  [] s = "100" -> 100
                  [] s = "105" -> 105]

\* FredObservationTransformer._parse_date
parse_date(date_string) ==
    IF date_string = None \/ date_string = Some("") THEN None
    ELSE IF date_string[1] \in DOMAIN DateTable THEN Some(DateTable[date_string[1]])
    ELSE None

\* Mutant of parse_value: the parsed number is tested for truth, so zero
\* becomes None.
parse_value_zero_as_null(value_string) ==
    IF value_string = None \/ value_string = Some("") \/ value_string = Some(".") THEN None
    ELSE IF value_string[1] \in DOMAIN DecimalTable /\ DecimalTable[value_string[1]] # 0
         THEN Some(DecimalTable[value_string[1]])
    ELSE None

\* FredObservationTransformer._parse_value
parse_value(value_string) ==
    IF value_string = None \/ value_string = Some("") \/ value_string = Some(".") THEN None
    ELSE IF value_string[1] \in DOMAIN DecimalTable THEN Some(DecimalTable[value_string[1]])
    ELSE None

\* FredObservationTransformer._transform_single_observation; None when dropped.
\* A raw record is a dict: a missing key is the field None.
transform_single_observation(obs_data, series_id, now) ==
    IF obs_data.date = None THEN None
    ELSE IF parse_date(obs_data.date) = None THEN None
    ELSE Some([series_id        |-> series_id,
               observation_date |-> parse_date(obs_data.date),
               value            |-> parse_value(obs_data.value),
               realtime_start   |-> parse_date(obs_data.realtime_start),
               realtime_end     |-> parse_date(obs_data.realtime_end),
               created_at       |-> now])

\* Mutant of transform_observations: the loop ends at the first record that
\* is dropped.
RECURSIVE transform_observations_stopping(_, _, _)
transform_observations_stopping(fred_observations, series_id, now) ==
    IF fred_observations = <<>> THEN <<>>
    ELSE LET t == transform_single_observation(Head(fred_observations), series_id, now)
         IN  IF t = None THEN <<>>
             ELSE <<t[1]>> \o transform_observations_stopping(Tail(fred_observations),
                                                              series_id, now)

\* FredObservationTransformer.transform_observations
RECURSIVE transform_observations(_, _, _)
transform_observations(fred_observations, series_id, now) ==
    IF fred_observations = <<>> THEN <<>>
    ELSE LET t == transform_single_observation(Head(fred_observations), series_id, now)
             rest == transform_observations(Tail(fred_observations), series_id, now)
         IN  IF t = None THEN rest ELSE <<t[1]>> \o rest

\* FredDataValidator.validate_observation_data (series_id is the caller's
\* string, never None).
validate_observation_data(obs_data) ==
    obs_data.series_id # "" /\ obs_data.observation_date # None

\* The validation loop of ingest_series (STEP 5).
RECURSIVE valid_observations(_)
valid_observations(transformed) ==
    IF transformed = <<>> THEN <<>>
    ELSE IF validate_observation_data(Head(transformed))
         THEN <<Head(transformed)>> \o valid_observations(Tail(transformed))
         ELSE valid_observations(Tail(transformed))

\* Strings of 50 and of 500 characters.
X10 == "xxxxxxxxxx"
X50 == X10 \o X10 \o X10 \o X10 \o X10
X500 == X50 \o X50 \o X50 \o X50 \o X50 \o X50 \o X50 \o X50 \o X50 \o X50

\* The limits of fred_series.title (line 57) and fred_series.series_id
\* (line 307).
TitleLimit == 500
SeriesIdLimit == 50

\* Raw strings with surrounding whitespace and what str.strip() leaves of
\* them.
StripTable == [s \in {"   ", "  Gross Domestic Product "} |->
                 CASE s = "   " -> ""
                   [] s = "  Gross Domestic Product " -> "Gross Domestic Product"]

\* Mutant of strip: the string is taken as it is.
strip_nothing(s) == s

\* str.strip()
strip(s) == IF s \in DOMAIN StripTable THEN StripTable[s] ELSE s

\* Strings longer than a limit and their first `limit` characters.
PrefixTable == [a \in {<<X500 \o "y", TitleLimit>>} |-> X500]

\* s[:limit]
prefix(s, limit) == IF Len(s) <= limit THEN s ELSE PrefixTable[<<s, limit>>]

\* FredSeriesTransformer._parse_date
FredSeriesTransformer_parse_date(date_string) ==
    IF date_string = None \/ date_string = Some("") THEN None
    ELSE IF date_string[1] \in DOMAIN DateTable THEN Some(DateTable[date_string[1]])
    ELSE None

\* Mutant of transform_series_info: a missing title is defaulted instead of
\* raising.
transform_series_info_defaulting_title(fred_series_data, now) ==
    IF fred_series_data.id = None \/ fred_series_data.id = Some("") THEN None
    ELSE Some([series_id  |-> fred_series_data.id[1],
               title      |-> IF fred_series_data.title = None THEN "Untitled"
                              ELSE fred_series_data.title[1],
               observation_start |-> FredSeriesTransformer_parse_date(fred_series_data.observation_start),
               category   |-> fred_series_data.category_id,
               created_at |-> now,
               updated_at |-> now])

\* FredSeriesTransformer.transform_series_info; None when it raises
\* FredTransformationError (a title that is None raises AttributeError on
\* .strip(), which line 94 wraps).  title stands for the truncated string
\* columns and observation_start for the parsed date columns the dict always
\* carries; the key 'category' is there only when the payload has
\* 'category_id' (category = None: no such key).
transform_series_info(fred_series_data, now) ==
    IF fred_series_data.id = None \/ fred_series_data.id = Some("") THEN None
    ELSE IF fred_series_data.title = None THEN None
    ELSE IF strip(fred_series_data.title[1]) = "" THEN None
    ELSE Some([series_id  |-> fred_series_data.id[1],
               title      |-> prefix(strip(fred_series_data.title[1]), TitleLimit),
               observation_start |-> FredSeriesTransformer_parse_date(fred_series_data.observation_start),
               category   |-> fred_series_data.category_id,
               created_at |-> now,
               updated_at |-> now])

\* Mutant of validate_series_data: the length of series_id is not looked at.
validate_series_data_without_length(series_data) ==
    \A field \in {"series_id", "title"} :
        field \in DOMAIN series_data /\ series_data[field] # ""

\* FredDataValidator.validate_series_data (lines 301-313); series_data is a
\* dict: a function from the keys it has.
validate_series_data(series_data) ==
    /\ \A field \in {"series_id", "title"} :
          field \in DOMAIN series_data /\ series_data[field] # ""
    /\ Len(series_data.series_id) <= SeriesIdLimit

\* days_lookback when the caller gives none (lines 105 and 326), and the
\* values callers give.
DefaultDaysLookback == 30
DaysLookbacks == {7, DefaultDaysLookback}

\* datetime.now().date() (line 164) as a day number.
Today == 100

\* ------------------------------------------------------- what a fetch returns
FetchError == "FetchError"

\* fetch_series_info(series_id): the 'seriess'[0] dict, or it raises.
RawTitles == {Some("Gross Domestic Product"), Some("GDP (revised title)"), None}
RawCategories == {None, Some("32991")}
RawSeries(series_id, titles, categories) ==
    { [id |-> Some(series_id), title |-> t, category_id |-> c,
       observation_start |-> Some("2024-01-01")] :
        t \in titles, c \in categories }

\* One record of the 'observations' array.
RawObservations ==
    { [date |-> d, value |-> v.value, realtime_start |-> v.rt, realtime_end |-> v.rt] :
        d \in {Some("2024-01-01"), Some("2024-04-01")},
        v \in { [value |-> Some("100"), rt |-> Some("2025-08-07")],
                [value |-> Some("105"), rt |-> Some("2025-09-07")],
                [value |-> Some("."),   rt |-> Some("2025-09-07")] } }
      \cup { [date |-> Some("n/a"), value |-> Some("0"),
              realtime_start |-> Some("2025-08-07"), realtime_end |-> Some("2025-08-07")] }

RECURSIVE SeqsUpTo(_, _)
SeqsUpTo(S, n) ==
    IF n = 0 THEN {<<>>}
    ELSE LET shorter == SeqsUpTo(S, n - 1)
         IN  shorter \cup { Append(s, x) : s \in {t \in shorter : Len(t) = n - 1}, x \in S }

\* --------------------------------------------------------------------- state
VARIABLES
    series,        \* table fred_series: committed rows
    obs,           \* table fred_observations: committed rows
    ledger,        \* table fred_sync_log: committed rows, in insertion order
    nextId,        \* sequence behind fred_observations.id
    uniq,          \* the UNIQUE (series_id, observation_date) constraint is in force
    clock,         \* wall clock; ticks when an ingest_series call starts
    pc,            \* per worker: where its ingest_series call stands
    args,          \* per worker: the call in progress and its arguments
    result,        \* per worker: the result dict of ingest_series
    now,           \* per worker: sync_start_time / datetime.now(UTC) of the call
    tseries,       \* per worker: transformed_series
    seriesOp,      \* per worker: what the series session holds unflushed
    batch,         \* per worker: valid_observations
    idx,           \* per worker: index of the next obs_data of the loop
    counts,        \* per worker: observations_added, observations_updated
    pending,       \* per worker: unflushed change of the observation session
    insRows,       \* per worker: rows INSERTed by the open transaction
    updRows,       \* per worker: row versions UPDATEd by the open transaction
    txnBefore,     \* per worker: obs when its observation transaction opened
    runBefore,     \* per worker: series and obs when its call started
    fetched,       \* per worker: what the call's fetches returned
    txns,          \* history: the committed observation transactions
    runs,          \* history: the finished ingest_series calls
    sync,          \* per worker: the locals of its sync_multiple_series call
    syncs,         \* history: the summaries sync_multiple_series returned
    status,        \* per worker: its last get_sync_status call and what it returned
    cancels,       \* history: the cancellations of sync_multiple_series calls
    input,         \* a transformer or validator called on its own: the call
    output,        \* ... and what it returned
    constraints,   \* names of the UNIQUE constraints of fred_observations
    mig,           \* the add_unique_constraint run in progress: its transaction
    migs           \* history: the finished add_unique_constraint runs

vars == <<series, obs, ledger, nextId, uniq, clock, pc, args, result, now, tseries,
          seriesOp, batch, idx, counts, pending, insRows, updRows, txnBefore,
          runBefore, fetched, txns, runs, sync, syncs, status, cancels, input, output,
          constraints, mig, migs>>

\* ------------------------------------------------------------------ helpers
Key(r) == <<r.series_id, r.observation_date>>
Keys(rows) == { Key(r) : r \in rows }
Range(s) == { s[i] : i \in DOMAIN s }

\* The result dict built at the top of ingest_series.
NewResult(series_id) ==
    [series_id            |-> series_id,
     success              |-> FALSE,
     series_added         |-> FALSE,
     observations_added   |-> 0,
     observations_updated |-> 0,
     error_message        |-> None,
     api_calls_used       |-> 0]

NoCounts == [added |-> 0, updated |-> 0]
\* start_date: <<>> while no observation fetch was made, else the one-element
\* tuple of the start_date the fetch was given.
NoFetch == [series |-> None, observations |-> None, start_date |-> <<>>]
NoSnapshot == [series |-> {}, obs |-> {}, ledger |-> <<>>]

\* The locals of sync_multiple_series before its loop (lines 342-345).
NoSync ==
    [active |-> FALSE, series_ids |-> <<>>, next |-> 1, update_existing |-> TRUE,
     first_run |-> 1,
     results |-> <<>>, total_api_calls |-> 0, successful_series |-> 0,
     failed_series |-> 0]

NoStatus == [asked |-> FALSE, series_id |-> "", raised |-> FALSE, returned |-> None,
             seen |-> <<>>]

FetchResponses(S) ==
    { [err |-> TRUE, data |-> None] } \cup { [err |-> FALSE, data |-> Some(d)] : d \in S }

\* No transformer or validator is called on its own.
NoCall == [fn |-> "none", arg |-> <<>>]
NoOutput == [done |-> FALSE, value |-> <<>>]

\* No add_unique_constraint run is in progress.
NoMigration == [pc |-> "idle", obs |-> {}, constraints |-> {},
                start |-> [obs |-> {}, constraints |-> {}], dedup |-> <<>>]

\* No call has been made.
InitCalls ==
    /\ clock = 0
    /\ pc = [p \in Workers |-> "idle"]
    /\ args = [p \in Workers |-> [call |-> "ingest_series", series_id |-> "GDP",
                                   update_existing |-> FALSE,
                                   days_lookback |-> DefaultDaysLookback]]
    /\ result = [p \in Workers |-> NewResult("GDP")]
    /\ now = [p \in Workers |-> 0]
    /\ tseries = [p \in Workers |-> None]
    /\ seriesOp = [p \in Workers |-> "none"]
    /\ batch = [p \in Workers |-> <<>>]
    /\ idx = [p \in Workers |-> 1]
    /\ counts = [p \in Workers |-> NoCounts]
    /\ pending = [p \in Workers |-> <<>>]
    /\ insRows = [p \in Workers |-> {}]
    /\ updRows = [p \in Workers |-> {}]
    /\ txnBefore = [p \in Workers |-> {}]
    /\ runBefore = [p \in Workers |-> NoSnapshot]
    /\ fetched = [p \in Workers |-> NoFetch]
    /\ txns = <<>>
    /\ runs = <<>>
    /\ sync = [p \in Workers |-> NoSync]
    /\ syncs = <<>>
    /\ status = [p \in Workers |-> NoStatus]
    /\ cancels = <<>>
    /\ mig = NoMigration
    /\ migs = <<>>

\* The name add_unique_constraint gives its constraint (line 106).
constraint_name == "uk_fred_observations_series_date"

\* The tables as create_tables leaves them, but for the rows of fred_series;
\* the unique constraint, where it is in force, under the migration's name.
InitStore(series_rows) ==
    /\ series = series_rows
    /\ obs = {}
    /\ ledger = <<>>
    /\ nextId = 1
    /\ uniq \in BOOLEAN
    /\ constraints = IF uniq THEN {constraint_name} ELSE {}
    /\ InitCalls

InitWith(series_rows) ==
    /\ InitStore(series_rows)
    /\ input = NoCall
    /\ output = NoOutput

Init == InitWith({})

\* ------------------------------------------------- get_db_session (lines 84-99)
\* Mutant of get_db_session_exit: the except branch commits instead of
\* rolling back.
get_db_session_exit_always_commit(committed, written, raised) == written

\* What the session context manager leaves in a table when its block ends:
\* COMMIT of the transaction's writes, or ROLLBACK when the block (or the
\* flush at commit) raised.
get_db_session_exit(committed, written, raised) ==
    IF raised THEN committed ELSE written

\* ------------------------------------------------ ingest_series, STEP 1 and 2
\* Mutant of Failed: the exception is caught and its message dropped.
Failed_without_message(p, res, message) ==
    /\ result' = [result EXCEPT ![p] = res]
    /\ pc' = [pc EXCEPT ![p] = "log"]

\* The except branch of ingest_series (lines 211-217): keep the message, go
\* on to _log_sync_result.
Failed(p, res, message) ==
    /\ result' = [result EXCEPT ![p] = [res EXCEPT !.error_message = Some(message)]]
    /\ pc' = [pc EXCEPT ![p] = "log"]

\* The top of ingest_series (lines 123-135).
Enter(p, series_id, update_existing, days_lookback) ==
    /\ clock' = clock + 1
    /\ now' = [now EXCEPT ![p] = clock + 1]
    /\ args' = [args EXCEPT ![p] = [call |-> "ingest_series", series_id |-> series_id,
                                    update_existing |-> update_existing,
                                    days_lookback |-> days_lookback]]
    /\ result' = [result EXCEPT ![p] = NewResult(series_id)]
    /\ runBefore' = [runBefore EXCEPT ![p] =
                        [series |-> series, obs |-> obs, ledger |-> ledger]]
    /\ fetched' = [fetched EXCEPT ![p] = NoFetch]
    /\ pc' = [pc EXCEPT ![p] = "fetch_series"]
    /\ UNCHANGED <<series, obs, ledger, nextId, uniq, tseries, seriesOp, batch, idx,
                   counts, pending, insRows, updRows, txnBefore, txns, runs,
                   syncs, status, cancels, input, output,
                   constraints, mig, migs>>

\* ingest_series called on its own.
StartLookback(p, series_id, update_existing, days_lookback) ==
    /\ pc[p] = "idle"
    /\ clock < MaxRuns
    /\ Enter(p, series_id, update_existing, days_lookback)
    /\ UNCHANGED sync

\* ingest_series called without days_lookback (line 105: the default).
Start(p, series_id, update_existing) ==
    StartLookback(p, series_id, update_existing, DefaultDaysLookback)

\* fetch_series_info, transform_fred_series, validate_series_data (lines 138-148)
FetchSeries(p, resp) ==
    /\ pc[p] = "fetch_series"
    /\ IF resp.err
       THEN /\ Failed(p, result[p], FetchError)
            /\ UNCHANGED <<tseries, fetched>>
       ELSE LET res == [result[p] EXCEPT !.api_calls_used = @ + 1]
                t == transform_series_info(resp.data[1], now[p])
            IN  /\ fetched' = [fetched EXCEPT ![p].series = resp.data]
                /\ IF t = None
                   THEN /\ Failed(p, res, "FredTransformationError")
                        /\ UNCHANGED tseries
                   ELSE IF ~validate_series_data(t[1])
                   THEN /\ Failed(p, res, "FredTransformationError")
                        /\ UNCHANGED tseries
                   ELSE /\ result' = [result EXCEPT ![p] = res]
                        /\ tseries' = [tseries EXCEPT ![p] = t]
                        /\ pc' = [pc EXCEPT ![p] = "upsert_series"]
    /\ UNCHANGED <<series, obs, ledger, nextId, uniq, clock, args, now, seriesOp, batch,
                   idx, counts, pending, insRows, updRows, txnBefore, runBefore, txns,
                   runs, sync, syncs, status, cancels, input, output,
                   constraints, mig, migs>>

\* Mutant of upsert_series: update_existing is not consulted.
upsert_series_ignoring_flag(existing_series, update_existing) ==
    IF existing_series # None THEN "update" ELSE "insert"

\* _upsert_series (lines 233-254): what it leaves in the session, given the
\* row session.get returned (None when there is none).
upsert_series(existing_series, update_existing) ==
    IF existing_series # None /\ ~update_existing THEN "skip"
    ELSE IF existing_series # None THEN "update"
    ELSE "insert"

\* Mutant of SeriesRow: the lookup does not compare the key.
SeriesRow_any_key(table, series_id) ==
    IF table # {} THEN Some(CHOOSE r \in table : TRUE) ELSE None

SeriesRow(table, series_id) ==
    IF \E r \in table : r.series_id = series_id
    THEN Some(CHOOSE r \in table : r.series_id = series_id)
    ELSE None

\* Mutant of setattr_loop: created_at is copied like every other key.
setattr_loop_with_created_at(existing_series, series_data) ==
    [series_data EXCEPT
       !.category = IF series_data.category = None THEN existing_series.category ELSE @]

\* The setattr loop (lines 243-246): every key of series_data but created_at
\* is set on existing_series; a column series_data has no key for keeps
\* what it holds.
setattr_loop(existing_series, series_data) ==
    [series_data EXCEPT
       !.created_at = existing_series.created_at,
       !.category = IF series_data.category = None THEN existing_series.category ELSE @]

\* Mutant of flush_series: the new FredSeries is never added to the session.
flush_series_without_add(table, op, series_data) ==
    CASE op = "update" ->
            { IF r.series_id = series_data.series_id
              THEN setattr_loop(r, series_data)
              ELSE r : r \in table }
      [] OTHER -> table

\* The series table after the flush of the session's change: the row of
\* FredSeries(**series_data) added, or the stored row as setattr left it.
flush_series(table, op, series_data) ==
    CASE op = "insert" -> table \cup {series_data}
      [] op = "update" ->
            { IF r.series_id = series_data.series_id
              THEN setattr_loop(r, series_data)
              ELSE r : r \in table }
      [] OTHER -> table

UpsertSeries(p) ==
    /\ pc[p] = "upsert_series"
    /\ LET op == upsert_series(SeriesRow(series, args[p].series_id),
                               args[p].update_existing)
       IN  /\ seriesOp' = [seriesOp EXCEPT ![p] = op]
           /\ result' = [result EXCEPT ![p].series_added = (op = "insert")]
    /\ pc' = [pc EXCEPT ![p] = "commit_series"]
    /\ UNCHANGED <<series, obs, ledger, nextId, uniq, clock, args, now, tseries, batch,
                   idx, counts, pending, insRows, updRows, txnBefore, runBefore, fetched,
                   txns, runs,
                   sync, syncs, status, cancels, input, output,
                   constraints, mig, migs>>

\* Mutant of after_upsert_series: a skipped descriptor ends the run's work.
after_upsert_series_ending_on_skip(op) ==
    IF op = "skip" THEN "log" ELSE "fetch_observations"

\* Where ingest_series goes on when the series session has committed
\* (lines 150-157): to STEP 3 and 4, whatever _upsert_series did.
after_upsert_series(op) == "fetch_observations"

\* End of the first `async with self.get_db_session()` block (line 155): flush
\* and COMMIT.  The INSERT of a series another transaction has committed in
\* the meantime violates the primary key.
CommitSeries(p) ==
    /\ pc[p] = "commit_series"
    /\ LET raised == seriesOp[p] = "insert"
                     /\ SeriesRow(series, args[p].series_id) # None
       IN  /\ series' = get_db_session_exit(
                            series, flush_series(series, seriesOp[p], tseries[p][1]), raised)
           /\ IF raised
              THEN Failed(p, result[p], "PrimaryKeyViolation")
              ELSE /\ pc' = [pc EXCEPT ![p] = after_upsert_series(seriesOp[p])]
                   /\ UNCHANGED result
    /\ seriesOp' = [seriesOp EXCEPT ![p] = "none"]
    /\ UNCHANGED <<obs, ledger, nextId, uniq, clock, args, now, tseries, batch, idx,
                   counts, pending, insRows, updRows, txnBefore, runBefore, fetched,
                   txns, runs,
                   sync, syncs, status, cancels, input, output,
                   constraints, mig, migs>>

\* ------------------------------------------- the observation session (STEP 6)
\* Mutant of session_view: the SELECT does not see the rows the session has
\* added (no autoflush).
session_view_without_own_inserts(committed, ins, upd) ==
    { r \in committed : \A u \in upd : u.row.id # r.id } \cup { u.row : u \in upd }

\* The rows a SELECT of the transaction sees: the committed rows, with the
\* session's own versions in place of the rows it has loaded or written.
session_view(committed, ins, upd) ==
    { r \in committed : \A u \in upd : u.row.id # r.id }
        \cup { u.row : u \in upd } \cup ins

\* Mutant of select_existing: the WHERE clause without the series condition.
select_existing_any_series(view, obs_data) ==
    { r \in view : r.observation_date = obs_data.observation_date }

\* Mutant of select_existing: the WHERE clause without the date condition.
select_existing_any_date(view, obs_data) ==
    { r \in view : r.series_id = obs_data.series_id }

\* Lines 278-285: the rows the SELECT matches.
select_existing(view, obs_data) ==
    { r \in view : /\ r.series_id = obs_data.series_id
                   /\ r.observation_date = obs_data.observation_date }

\* Mutant of assign_existing: a null value does not overwrite the stored one.
assign_existing_keep_on_null(existing_obs, obs_data) ==
    [existing_obs EXCEPT !.value = IF obs_data.value = None THEN @ ELSE obs_data.value,
                         !.realtime_start = obs_data.realtime_start,
                         !.realtime_end = obs_data.realtime_end]

\* Mutant of assign_existing: created_at is assigned as well.
assign_existing_with_created_at(existing_obs, obs_data) ==
    [existing_obs EXCEPT !.value = obs_data.value,
                         !.realtime_start = obs_data.realtime_start,
                         !.realtime_end = obs_data.realtime_end,
                         !.created_at = obs_data.created_at]

\* Lines 289-291: the three attributes set on existing_obs.
assign_existing(existing_obs, obs_data) ==
    [existing_obs EXCEPT !.value = obs_data.value,
                         !.realtime_start = obs_data.realtime_start,
                         !.realtime_end = obs_data.realtime_end]

\* Mutant of upsert_one: insert without looking at the existing row.
upsert_one_always_insert(existing_obs, obs_data) ==
    [op |-> "insert", row |-> None, data |-> obs_data]

\* Mutant of upsert_one: a stored row is counted as updated but keeps what
\* it holds.
upsert_one_skip_existing(existing_obs, obs_data) ==
    IF existing_obs # None
    THEN [op |-> "update", row |-> existing_obs, data |-> existing_obs[1]]
    ELSE [op |-> "insert", row |-> None, data |-> obs_data]

\* Lines 287-299: the change one loop iteration leaves in the session, given
\* what scalar_one_or_none returned.
upsert_one(existing_obs, obs_data) ==
    IF existing_obs # None
    THEN [op |-> "update", row |-> existing_obs, data |-> obs_data]
    ELSE [op |-> "insert", row |-> None, data |-> obs_data]

\* The columns an UPDATE of the unit of work sets: those whose value changed.
ChangedCols(row, new) ==
    { c \in DOMAIN row : row[c] # new[c] }

\* What the database answers to the flush of worker p's pending change:
\* an INSERT waits for an uncommitted row of the same key and fails on a
\* committed one when the unique constraint is in force, and fails when its
\* series_id has no fred_series row (foreign key); an UPDATE waits for the
\* row lock of another transaction.
FlushOutcome(p) ==
    IF pending[p] = <<>> THEN "ok"
    ELSE LET c == pending[p][1] IN
         IF c.op = "insert"
         THEN IF uniq /\ \E q \in Workers \ {p} : Key(c.data) \in Keys(insRows[q])
              THEN "blocked"
              ELSE IF uniq /\ Key(c.data) \in Keys(obs) THEN "UniqueViolation"
              ELSE IF SeriesRow(series, c.data.series_id) = None
                   THEN "ForeignKeyViolation"
              ELSE "ok"
         ELSE IF /\ ChangedCols(c.row[1], assign_existing(c.row[1], c.data)) # {}
                 /\ \E q \in Workers \ {p} :
                       \E u \in updRows[q] : u.row.id = c.row[1].id /\ u.cols # {}
              THEN "blocked"
              ELSE "ok"

\* Mutant of FlushedIns: a row the transaction has inserted keeps what it
\* was inserted with.
FlushedIns_keeping_first(p) ==
    IF pending[p] = <<>> THEN insRows[p]
    ELSE LET c == pending[p][1] IN
         IF c.op = "insert"
         THEN insRows[p] \cup
                { [id |-> nextId, series_id |-> c.data.series_id,
                   observation_date |-> c.data.observation_date,
                   value |-> c.data.value, realtime_start |-> c.data.realtime_start,
                   realtime_end |-> c.data.realtime_end,
                   created_at |-> c.data.created_at] }
         ELSE insRows[p]

\* The transaction's INSERTed rows after the flush of its pending change.
FlushedIns(p) ==
    IF pending[p] = <<>> THEN insRows[p]
    ELSE LET c == pending[p][1] IN
         IF c.op = "insert"
         THEN insRows[p] \cup
                { [id |-> nextId, series_id |-> c.data.series_id,
                   observation_date |-> c.data.observation_date,
                   value |-> c.data.value, realtime_start |-> c.data.realtime_start,
                   realtime_end |-> c.data.realtime_end,
                   created_at |-> c.data.created_at] }
         ELSE { IF r.id = c.row[1].id THEN assign_existing(r, c.data) ELSE r :
                  r \in insRows[p] }

\* The transaction's loaded and UPDATEd rows after the flush.
FlushedUpd(p) ==
    IF pending[p] = <<>> THEN updRows[p]
    ELSE LET c == pending[p][1] IN
         IF c.op = "insert" \/ \E r \in insRows[p] : r.id = c.row[1].id
         THEN updRows[p]
         ELSE LET old == { u \in updRows[p] : u.row.id = c.row[1].id }
                  cols == UNION { u.cols : u \in old }
              IN  (updRows[p] \ old) \cup
                    { [row |-> assign_existing(c.row[1], c.data),
                       cols |-> cols \cup ChangedCols(c.row[1],
                                                      assign_existing(c.row[1], c.data))] }

FlushedNextId(p) ==
    IF pending[p] # <<>> /\ pending[p][1].op = "insert" THEN nextId + 1 ELSE nextId

\* Mutant of commit_observations: a row the transaction updated is dropped.
commit_observations_dropping_updated(committed, ins, upd) ==
    { r \in committed : \A u \in upd : u.row.id # r.id } \cup ins

\* COMMIT: the UPDATEs land on the committed version of each row, the
\* INSERTed rows become visible.
commit_observations(committed, ins, upd) ==
    { IF \E u \in upd : u.row.id = r.id
      THEN LET u == CHOOSE x \in upd : x.row.id = r.id
           IN  [c \in DOMAIN r |-> IF c \in u.cols THEN u.row[c] ELSE r[c]]
      ELSE r : r \in committed } \cup ins

\* Mutant of CloseSession: the rows the transaction wrote stay with the
\* session after the block has ended.
CloseSession_keeping_rows(p) ==
    /\ pending' = [pending EXCEPT ![p] = <<>>]
    /\ insRows' = [insRows EXCEPT ![p] = FlushedIns(p)]
    /\ updRows' = [updRows EXCEPT ![p] = FlushedUpd(p)]
    /\ idx' = [idx EXCEPT ![p] = 1]
    /\ counts' = [counts EXCEPT ![p] = NoCounts]

\* `finally: await session.close()` (lines 98-99): the session's
\* transaction state is gone.
CloseSession(p) ==
    /\ pending' = [pending EXCEPT ![p] = <<>>]
    /\ insRows' = [insRows EXCEPT ![p] = {}]
    /\ updRows' = [updRows EXCEPT ![p] = {}]
    /\ idx' = [idx EXCEPT ![p] = 1]
    /\ counts' = [counts EXCEPT ![p] = NoCounts]

\* Mutant of sync_collect: the calls of a failed ingestion are not added to
\* total_api_calls.
sync_collect_skipping_failed_calls(locals, res) ==
    [locals EXCEPT !.results = Append(@, res),
                   !.total_api_calls = IF res.success THEN @ + res.api_calls_used ELSE @,
                   !.successful_series = IF res.success THEN @ + 1 ELSE @,
                   !.failed_series = IF res.success THEN @ ELSE @ + 1,
                   !.next = @ + 1]

\* Mutant of sync_collect: a result with success = False is counted as a
\* success.
sync_collect_counting_all(locals, res) ==
    [locals EXCEPT !.results = Append(@, res),
                   !.total_api_calls = @ + res.api_calls_used,
                   !.successful_series = @ + 1,
                   !.next = @ + 1]

\* sync_multiple_series, lines 353-363: the result of one ingest_series call
\* is collected and counted.
sync_collect(locals, res) ==
    [locals EXCEPT !.results = Append(@, res),
                   !.total_api_calls = @ + res.api_calls_used,
                   !.successful_series = IF res.success THEN @ + 1 ELSE @,
                   !.failed_series = IF res.success THEN @ ELSE @ + 1,
                   !.next = @ + 1]

\* sync_multiple_series, lines 364-366: ingest_series raised.
sync_except(locals) ==
    [locals EXCEPT !.failed_series = @ + 1, !.next = @ + 1]

\* ingest_series returns: the call's record joins the history, the worker's
\* locals are dropped, and a sync_multiple_series caller collects the result.
\* ledger_after is fred_sync_log as the call leaves it, ledger_write what
\* became of its ledger INSERT ("stored", "failed", or "none" when it made
\* none).
Return(p, res, fet, ledger_after, ledger_write) ==
    /\ pc' = [pc EXCEPT ![p] = IF sync[p].active THEN "sync_loop" ELSE "idle"]
    /\ sync' = [sync EXCEPT ![p] = IF sync[p].active THEN sync_collect(@, res) ELSE @]
    /\ runs' = Append(runs, [worker          |-> p,
                             series_id       |-> args[p].series_id,
                             update_existing |-> args[p].update_existing,
                             days_lookback   |-> args[p].days_lookback,
                             started         |-> now[p],
                             result          |-> res,
                             fetched         |-> fet,
                             ledger_write    |-> ledger_write,
                             before          |-> runBefore[p],
                             after           |-> [series |-> series, obs |-> obs,
                                                  ledger |-> ledger_after]])
    /\ tseries' = [tseries EXCEPT ![p] = None]
    /\ batch' = [batch EXCEPT ![p] = <<>>]
    /\ txnBefore' = [txnBefore EXCEPT ![p] = {}]
    /\ runBefore' = [runBefore EXCEPT ![p] = NoSnapshot]
    /\ fetched' = [fetched EXCEPT ![p] = NoFetch]

\* An exception leaves ingest_series: no result is returned; a
\* sync_multiple_series caller counts the series as failed.
Raise(p) ==
    /\ pc' = [pc EXCEPT ![p] = IF sync[p].active THEN "sync_loop" ELSE "raised"]
    /\ sync' = [sync EXCEPT ![p] = IF sync[p].active THEN sync_except(@) ELSE @]
    /\ tseries' = [tseries EXCEPT ![p] = None]
    /\ batch' = [batch EXCEPT ![p] = <<>>]
    /\ txnBefore' = [txnBefore EXCEPT ![p] = {}]
    /\ runBefore' = [runBefore EXCEPT ![p] = NoSnapshot]
    /\ fetched' = [fetched EXCEPT ![p] = NoFetch]
    /\ UNCHANGED runs

\* STEP 3 (lines 157-165): the start of the observation window, None for
\* the full history.
start_date(update_existing, today, days_lookback) ==
    IF ~update_existing THEN None ELSE Some(today - days_lookback)

\* STEP 3-5 (lines 157-193): fetch_observations, the empty-result return,
\* transform and validate; then the second session opens.
FetchObservations(p, resp) ==
    /\ pc[p] = "fetch_observations"
    /\ IF resp.err
       THEN /\ Failed(p, result[p], FetchError)
            /\ fetched' = [fetched EXCEPT ![p].start_date =
                              <<start_date(args[p].update_existing, Today,
                                           args[p].days_lookback)>>]
            /\ UNCHANGED <<batch, txnBefore, runs, tseries, runBefore, sync>>
       ELSE LET res == [result[p] EXCEPT !.api_calls_used = @ + 1]
                raw_observations == resp.data[1]
                valid == valid_observations(
                             transform_observations(raw_observations,
                                                    args[p].series_id, now[p]))
            IN  IF raw_observations = <<>>
                THEN /\ result' = [result EXCEPT ![p] = [res EXCEPT !.success = TRUE]]
                     /\ Return(p, [res EXCEPT !.success = TRUE],
                               [fetched[p] EXCEPT
                                  !.observations = resp.data,
                                  !.start_date =
                                     <<start_date(args[p].update_existing, Today,
                                                  args[p].days_lookback)>>],
                               ledger, "none")
                ELSE /\ fetched' = [fetched EXCEPT
                                      ![p].observations = resp.data,
                                      ![p].start_date =
                                         <<start_date(args[p].update_existing, Today,
                                                      args[p].days_lookback)>>]
                     /\ batch' = [batch EXCEPT ![p] = valid]
                     /\ txnBefore' = [txnBefore EXCEPT ![p] = obs]
                     /\ IF valid = <<>>
                        THEN /\ result' = [result EXCEPT ![p] = [res EXCEPT !.success = TRUE]]
                             /\ pc' = [pc EXCEPT ![p] = "log"]
                        ELSE /\ result' = [result EXCEPT ![p] = res]
                             /\ pc' = [pc EXCEPT ![p] = "upsert_observations"]
                     /\ UNCHANGED <<runs, tseries, runBefore, sync>>
    /\ UNCHANGED <<series, obs, ledger, nextId, uniq, clock, args, now, seriesOp, idx,
                   counts, pending, insRows, updRows, txns, syncs, status, cancels, input, output,
                   constraints, mig, migs>>

\* Mutant of count_change: an updated row is counted as added.
count_change_adding_always(c, change) == [c EXCEPT !.added = @ + 1]

\* observations_updated += 1 (line 292) or observations_added += 1 (line 298).
count_change(c, change) ==
    IF change.op = "insert"
    THEN [c EXCEPT !.added = @ + 1]
    ELSE [c EXCEPT !.updated = @ + 1]

\* One iteration of the loop of _upsert_observations (lines 275-299): the
\* SELECT autoflushes the change of the previous iteration, then the row is
\* looked up and updated or added.
UpsertObservation(p) ==
    /\ pc[p] = "upsert_observations"
    /\ idx[p] <= Len(batch[p])
    /\ FlushOutcome(p) # "blocked"
    /\ nextId' = FlushedNextId(p)
    /\ LET obs_data == batch[p][idx[p]]
           found == select_existing(session_view(obs, FlushedIns(p), FlushedUpd(p)),
                                    obs_data)
       IN  IF FlushOutcome(p) # "ok" \/ Cardinality(found) > 1
           THEN /\ obs' = get_db_session_exit(
                              obs, commit_observations(obs, FlushedIns(p), FlushedUpd(p)),
                              TRUE)
                /\ Failed(p, result[p],
                          IF FlushOutcome(p) # "ok" THEN FlushOutcome(p)
                          ELSE "MultipleResultsFound")
                /\ CloseSession(p)
           ELSE LET existing_obs == IF found = {} THEN None
                                    ELSE Some(CHOOSE r \in found : TRUE)
                    change == upsert_one(existing_obs, obs_data)
                IN  /\ pending' = [pending EXCEPT ![p] = <<change>>]
                    /\ insRows' = [insRows EXCEPT ![p] = FlushedIns(p)]
                    /\ updRows' = [updRows EXCEPT ![p] = FlushedUpd(p)]
                    /\ idx' = [idx EXCEPT ![p] = @ + 1]
                    /\ counts' = [counts EXCEPT ![p] = count_change(@, change)]
                    /\ UNCHANGED <<obs, result, pc>>
    /\ UNCHANGED <<series, ledger, uniq, clock, args, now, tseries, seriesOp, batch,
                   txnBefore, runBefore, fetched, txns, runs,
                   sync, syncs, status, cancels, input, output,
                   constraints, mig, migs>>

\* Lines 198-205: _upsert_observations has returned, the counts are stored
\* in result, and the session block ends: flush, COMMIT.
CommitObservations(p) ==
    /\ pc[p] = "upsert_observations"
    /\ idx[p] > Len(batch[p])
    /\ FlushOutcome(p) # "blocked"
    /\ nextId' = FlushedNextId(p)
    /\ LET raised == FlushOutcome(p) # "ok"
           res == [result[p] EXCEPT !.observations_added = counts[p].added,
                                    !.observations_updated = counts[p].updated]
       IN  /\ obs' = get_db_session_exit(
                         obs, commit_observations(obs, FlushedIns(p), FlushedUpd(p)),
                         raised)
           /\ IF raised
              THEN /\ Failed(p, res, FlushOutcome(p))
                   /\ UNCHANGED txns
              ELSE /\ result' = [result EXCEPT ![p] = [res EXCEPT !.success = TRUE]]
                   /\ pc' = [pc EXCEPT ![p] = "log"]
                   /\ txns' = Append(txns, [worker  |-> p,
                                            batch   |-> batch[p],
                                            before  |-> txnBefore[p],
                                            after   |-> obs',
                                            added   |-> counts[p].added,
                                            updated |-> counts[p].updated])
    /\ CloseSession(p)
    /\ UNCHANGED <<series, ledger, uniq, clock, args, now, tseries, seriesOp, batch,
                   txnBefore, runBefore, fetched, runs, sync, syncs, status, cancels, input, output,
                   constraints, mig, migs>>

\* Any other SQLAlchemyError (connection lost, deadlock detected, ...) raised
\* by a statement of an open session or by its COMMIT: get_db_session rolls
\* back and re-raises, ingest_series catches.
StorageError(p) ==
    /\ pc[p] \in {"commit_series", "upsert_observations"}
    /\ IF pc[p] = "commit_series"
       THEN /\ series' = get_db_session_exit(
                            series, flush_series(series, seriesOp[p], tseries[p][1]), TRUE)
            /\ Failed(p, result[p], "SQLAlchemyError")
            /\ UNCHANGED obs
       ELSE /\ obs' = get_db_session_exit(
                          obs, commit_observations(obs, insRows[p], updRows[p]), TRUE)
            /\ Failed(p, IF idx[p] > Len(batch[p])
                         THEN [result[p] EXCEPT
                                 !.observations_added = counts[p].added,
                                 !.observations_updated = counts[p].updated]
                         ELSE result[p],
                      "SQLAlchemyError")
            /\ UNCHANGED series
    /\ seriesOp' = [seriesOp EXCEPT ![p] = "none"]
    /\ CloseSession(p)
    /\ UNCHANGED <<ledger, nextId, uniq, clock, args, now, tseries, batch, txnBefore,
                   runBefore, fetched, txns, runs,
                   sync, syncs, status, cancels, input, output,
                   constraints, mig, migs>>

\* The FredSyncLog row built from result (lines 309-317).
log_entry(res, sync_start_time) ==
    [series_id       |-> res.series_id,
     sync_date       |-> sync_start_time,
     records_added   |-> res.observations_added,
     records_updated |-> res.observations_updated,
     success         |-> res.success,
     error_message   |-> res.error_message,
     api_calls_used  |-> res.api_calls_used]

\* Mutant of add_log_entry: one row per series, the newest replaces the
\* series' older row.
add_log_entry_replacing(table, entry) ==
    Append(SelectSeq(table, LAMBDA r : r.series_id # entry.series_id), entry)

\* session.add(log_entry) and the COMMIT of its session (lines 308-318).
add_log_entry(table, entry) == Append(table, entry)

\* Mutant of log_sync_result: the except branch re-raises.
log_sync_result_reraising(table, series_stored, res, sync_start_time, stored) ==
    IF stored /\ series_stored
    THEN [ledger |-> add_log_entry(table, log_entry(res, sync_start_time)),
          written |-> TRUE, raised |-> FALSE]
    ELSE [ledger |-> table, written |-> FALSE, raised |-> TRUE]

\* _log_sync_result (lines 305-320): the table it leaves, whether the row was
\* written, and whether an exception leaves it.  The INSERT fails when
\* fred_sync_log.series_id has no fred_series row (foreign key) or on any
\* other storage error (stored = FALSE); `except Exception` swallows both.
log_sync_result(table, series_stored, res, sync_start_time, stored) ==
    IF stored /\ series_stored
    THEN [ledger |-> add_log_entry(table, log_entry(res, sync_start_time)),
          written |-> TRUE, raised |-> FALSE]
    ELSE [ledger |-> table, written |-> FALSE, raised |-> FALSE]

\* _log_sync_result and the return of ingest_series (lines 206-219).
LogSyncResult(p, stored) ==
    /\ pc[p] = "log"
    /\ args[p].call = "ingest_series"
    /\ LET out == log_sync_result(ledger, SeriesRow(series, result[p].series_id) # None,
                                  result[p], now[p], stored)
       IN  /\ ledger' = out.ledger
           /\ IF out.raised
              THEN Raise(p)
              ELSE Return(p, result[p], fetched[p], out.ledger,
                          IF out.written THEN "stored" ELSE "failed")
    /\ UNCHANGED <<series, obs, nextId, uniq, clock, args, result, now, seriesOp, idx,
                   counts, pending, insRows, updRows, txns, syncs, status, cancels, input, output,
                   constraints, mig, migs>>

\* ------------------------------------------------------ sync_multiple_series
\* Lines 340-345: the call starts; first_run is where its ingest_series
\* calls will stand in the history.
StartSync(p, series_ids, update_existing) ==
    /\ pc[p] = "idle"
    /\ clock + Len(series_ids) <= MaxSeries
    /\ Len(syncs) + Cardinality({ q \in Workers : sync[q].active }) < MaxSyncs
    /\ sync' = [sync EXCEPT ![p] = [NoSync EXCEPT !.active = TRUE,
                                                  !.series_ids = series_ids,
                                                  !.update_existing = update_existing,
                                                  !.first_run = Len(runs) + 1]]
    /\ pc' = [pc EXCEPT ![p] = "sync_loop"]
    /\ UNCHANGED <<series, obs, ledger, nextId, uniq, clock, args, result, now, tseries,
                   seriesOp, batch, idx, counts, pending, insRows, updRows, txnBefore,
                   runBefore, fetched, txns, runs, syncs, status, cancels, input, output,
                   constraints, mig, migs>>

\* Lines 347-352: the loop calls ingest_series for the next series_id;
\* sync_multiple_series is called without days_lookback (line 326: the
\* default).
SyncIngest(p) ==
    /\ pc[p] = "sync_loop"
    /\ sync[p].next <= Len(sync[p].series_ids)
    /\ Enter(p, sync[p].series_ids[sync[p].next], sync[p].update_existing,
             DefaultDaysLookback)
    /\ UNCHANGED sync

\* Lines 368-378: the summary.
sync_summary(locals, timestamp) ==
    [total_series      |-> Len(locals.series_ids),
     successful_series |-> locals.successful_series,
     failed_series     |-> locals.failed_series,
     total_api_calls   |-> locals.total_api_calls,
     sync_timestamp    |-> timestamp,
     detailed_results  |-> locals.results]

FinishSync(p) ==
    /\ pc[p] = "sync_loop"
    /\ sync[p].next > Len(sync[p].series_ids)
    /\ syncs' = Append(syncs, [worker     |-> p,
                               series_ids |-> sync[p].series_ids,
                               first_run  |-> sync[p].first_run,
                               summary    |-> sync_summary(sync[p], clock)])
    /\ sync' = [sync EXCEPT ![p] = NoSync]
    /\ pc' = [pc EXCEPT ![p] = "idle"]
    /\ UNCHANGED <<series, obs, ledger, nextId, uniq, clock, args, result, now, tseries,
                   seriesOp, batch, idx, counts, pending, insRows, updRows, txnBefore,
                   runBefore, fetched, txns, runs, status, cancels, input, output,
                   constraints, mig, migs>>

\* Mutant of get_db_session_cancel: the session commits what it holds
\* before it closes.
get_db_session_cancel_committing(committed, written) == written

\* get_db_session when asyncio.CancelledError arrives inside its block
\* (lines 90-99): CancelledError is a BaseException, `except Exception` does
\* not run, `finally: await session.close()` discards the transaction.
get_db_session_cancel(committed, written) == committed

\* The task running sync_multiple_series is cancelled.  CancelledError is
\* raised at the await the task stands at: a statement or the COMMIT of an
\* open session (of _upsert_series, _upsert_observations or
\* _log_sync_result), or the sleep between two series (line 362).  No
\* `except Exception` of lines 211, 319 and 364 catches it: the open
\* session closes, no ledger row is written, no summary is returned.
Cancel(p) ==
    /\ sync[p].active
    /\ pc[p] \in {"commit_series", "upsert_observations", "log", "sync_loop"}
    /\ series' = IF pc[p] = "commit_series"
                 THEN get_db_session_cancel(
                          series, flush_series(series, seriesOp[p], tseries[p][1]))
                 ELSE series
    /\ obs' = IF pc[p] = "upsert_observations"
              THEN get_db_session_cancel(
                       obs, commit_observations(obs, FlushedIns(p), FlushedUpd(p)))
              ELSE obs
    /\ cancels' = Append(cancels,
                         [worker    |-> p,
                          at        |-> pc[p],
                          processed |-> Len(sync[p].results),
                          finished  |-> Len(runs),
                          open      |-> CASE pc[p] = "commit_series" -> 1
                                         [] pc[p] = "upsert_observations" -> 1
                                         [] pc[p] = "log" -> 1
                                         [] OTHER -> 0,
                          held      |-> IF pc[p] = "upsert_observations"
                                        THEN Cardinality(FlushedIns(p))
                                             + Cardinality(FlushedUpd(p))
                                        ELSE IF pc[p] = "commit_series"
                                                /\ seriesOp[p] \in {"insert", "update"}
                                        THEN 1 ELSE 0,
                          before    |-> [series |-> series, obs |-> obs, ledger |-> ledger],
                          after     |-> [series |-> series', obs |-> obs',
                                         ledger |-> ledger]])
    /\ pc' = [pc EXCEPT ![p] = "cancelled"]
    /\ sync' = [sync EXCEPT ![p] = NoSync]
    /\ seriesOp' = [seriesOp EXCEPT ![p] = "none"]
    /\ CloseSession(p)
    /\ tseries' = [tseries EXCEPT ![p] = None]
    /\ batch' = [batch EXCEPT ![p] = <<>>]
    /\ txnBefore' = [txnBefore EXCEPT ![p] = {}]
    /\ runBefore' = [runBefore EXCEPT ![p] = NoSnapshot]
    /\ fetched' = [fetched EXCEPT ![p] = NoFetch]
    /\ UNCHANGED <<ledger, nextId, uniq, clock, args, result, now, txns, runs, syncs,
                   status, input, output,
                   constraints, mig, migs>>

\* ------------------------------------------------------------ get_sync_status
\* WHERE FredSyncLog.series_id == series_id (lines 385-387).
select_sync_log(table, series_id) ==
    { r \in Range(table) : r.series_id = series_id }

\* Mutant of first_by_sync_date: the order is ascending.
first_by_sync_date_ascending(rows) ==
    { r \in rows : \A o \in rows : r.sync_date <= o.sync_date }

\* ORDER BY sync_date DESC LIMIT 1 (line 387): the rows the database may
\* return first.
first_by_sync_date(rows) ==
    { r \in rows : \A o \in rows : o.sync_date <= r.sync_date }

\* The dict built from sync_log (lines 393-401).
status_dict(sync_log) ==
    [series_id       |-> sync_log.series_id,
     last_sync       |-> sync_log.sync_date,
     success         |-> sync_log.success,
     records_added   |-> sync_log.records_added,
     records_updated |-> sync_log.records_updated,
     error_message   |-> sync_log.error_message,
     api_calls_used  |-> sync_log.api_calls_used]

\* get_sync_status (lines 380-406); raised: the query raised, which the
\* except branch turns into None.
GetSyncStatus(p, series_id, raised) ==
    /\ pc[p] = "idle"
    /\ LET first == first_by_sync_date(select_sync_log(ledger, series_id))
       IN  \E returned \in IF raised \/ first = {} THEN {None}
                            ELSE { Some(status_dict(r)) : r \in first } :
              status' = [status EXCEPT ![p] = [asked |-> TRUE, series_id |-> series_id,
                                               raised |-> raised, returned |-> returned,
                                               seen |-> ledger]]
    /\ UNCHANGED <<series, obs, ledger, nextId, uniq, clock, pc, args, result, now,
                   tseries, seriesOp, batch, idx, counts, pending, insRows, updRows,
                   txnBefore, runBefore, fetched, txns, runs, sync, syncs, cancels, input, output,
                   constraints, mig, migs>>

\* ------------------------------------- _upsert_observations called directly
\* `async with self.get_db_session() as session:
\*      added, updated = await self._upsert_observations(session, batch)`
\* (lines 197-198) on a validated batch, outside ingest_series.  The batch
\* is what the transformers made of raw_observations at time validated_at.
CallUpsertObservations(p, series_id, raw_observations, validated_at) ==
    /\ pc[p] = "idle"
    /\ clock < MaxRuns
    /\ clock' = clock + 1
    /\ now' = [now EXCEPT ![p] = clock + 1]
    /\ args' = [args EXCEPT ![p] = [call |-> "upsert_observations",
                                    series_id |-> series_id, update_existing |-> FALSE,
                                    days_lookback |-> DefaultDaysLookback]]
    /\ result' = [result EXCEPT ![p] = NewResult(series_id)]
    /\ batch' = [batch EXCEPT ![p] =
                   valid_observations(
                       transform_observations(raw_observations, series_id, validated_at))]
    /\ txnBefore' = [txnBefore EXCEPT ![p] = obs]
    /\ pc' = [pc EXCEPT ![p] = "upsert_observations"]
    /\ UNCHANGED <<series, obs, ledger, nextId, uniq, tseries, seriesOp, idx, counts,
                   pending, insRows, updRows, runBefore, fetched, txns, runs,
                   sync, syncs, status, cancels, input, output,
                   constraints, mig, migs>>

ReturnUpsertObservations(p) ==
    /\ pc[p] = "log"
    /\ args[p].call = "upsert_observations"
    /\ pc' = [pc EXCEPT ![p] = "idle"]
    /\ batch' = [batch EXCEPT ![p] = <<>>]
    /\ txnBefore' = [txnBefore EXCEPT ![p] = {}]
    /\ UNCHANGED <<series, obs, ledger, nextId, uniq, clock, args, result, now, tseries,
                   seriesOp, idx, counts, pending, insRows, updRows, runBefore, fetched,
                   txns, runs,
                   sync, syncs, status, cancels, input, output,
                   constraints, mig, migs>>

\* ------------------------------------------------------ add_unique_constraint
MaxMigrations == 2    \* add_unique_constraint runs in one behaviour
MaxStoredRows == 3    \* observation rows stored when the first run starts

\* The name PostgreSQL gives an unnamed UNIQUE (series_id, observation_date).
default_constraint_name == "fred_observations_series_id_observation_date_key"

\* constraint_name LIKE '%series_id%observation_date%' (line 53), for the
\* names a UNIQUE constraint of the table can have here.
LikeSeriesIdObservationDate ==
    [c \in {constraint_name, default_constraint_name} |->
        CASE c = constraint_name -> FALSE
          [] c = default_constraint_name -> TRUE]

\* check_constraint_sql (lines 48-57): the UNIQUE constraints of the table
\* whose name matches the pattern.
check_constraint_sql(names) ==
    { c \in names : LikeSeriesIdObservationDate[c] }

\* duplicate_check_sql (lines 69-79): the keys that have more than one row
\* (LIMIT 5 cuts the list that is printed; the code asks only whether it is
\* empty).
duplicate_check_sql(table) ==
    { k \in Keys(table) : Cardinality({ r \in table : Key(r) = k }) > 1 }

\* Mutant of deduplicate_sql: the comparison of the ids is turned round.
deduplicate_sql_keeping_lowest(table) ==
    { a \in table : ~\E b \in table : Key(a) = Key(b) /\ a.id > b.id }

\* deduplicate_sql (lines 89-97): DELETE every row a for which a row b of
\* the same key has a higher id.
deduplicate_sql(table) ==
    { a \in table : ~\E b \in table : Key(a) = Key(b) /\ a.id < b.id }

\* add_constraint_sql (lines 106-113): the error ALTER TABLE ends with, or
\* "ok".
add_constraint_sql(table, names) ==
    IF constraint_name \in names THEN "relation already exists"
    ELSE IF duplicate_check_sql(table) # {} THEN "could not create unique index"
    ELSE "ok"

\* The row of test_insert_sql (lines 143-149).
test_row(id, created_at) ==
    [id |-> id, series_id |-> "TEST_SERIES", observation_date |-> Some(1),
     value |-> Some(100), realtime_start |-> None, realtime_end |-> None,
     created_at |-> created_at]

\* test_insert_sql (lines 143-151): INSERT ... ON CONFLICT (series_id,
\* observation_date) DO UPDATE SET value = EXCLUDED.value.
test_insert_sql(table, id, created_at) ==
    IF \E r \in table : Key(r) = Key(test_row(id, created_at))
    THEN { IF Key(r) = Key(test_row(id, created_at)) THEN [r EXCEPT !.value = Some(100)]
           ELSE r : r \in table }
    ELSE table \cup {test_row(id, created_at)}

\* cleanup_sql (lines 159-160).
cleanup_sql(table) == { r \in table : r.series_id # "TEST_SERIES" }

\* The run ends: `async with engine.begin()` commits what the transaction
\* holds, or rolls back when an exception leaves the block (which line 181
\* raises again).
MigrationEnd(outcome, error, table, names) ==
    /\ obs' = table
    /\ constraints' = names
    /\ uniq' = (names # {})
    /\ migs' = Append(migs, [start   |-> mig.start,
                             dedup   |-> mig.dedup,
                             outcome |-> outcome,
                             error   |-> error,
                             end     |-> [obs |-> table, constraints |-> names]])
    /\ mig' = NoMigration

\* Lines 39-43: the transaction begins.
MigrationBegin ==
    /\ mig.pc = "idle"
    /\ Len(migs) < MaxMigrations
    /\ mig' = [pc |-> "check_constraint", obs |-> obs, constraints |-> constraints,
               start |-> [obs |-> obs, constraints |-> constraints], dedup |-> None]
    /\ UNCHANGED <<series, obs, ledger, nextId, uniq, clock, pc, args, result, now,
                   tseries, seriesOp, batch, idx, counts, pending, insRows, updRows,
                   txnBefore, runBefore, fetched, txns, runs, sync, syncs, status,
                   cancels, input, output, constraints, migs>>

\* STEP 1 (lines 45-64): return when a constraint is found.
CheckConstraint ==
    /\ mig.pc = "check_constraint"
    /\ IF check_constraint_sql(mig.constraints) # {}
       THEN MigrationEnd("exists", None, mig.obs, mig.constraints)
       ELSE /\ mig' = [mig EXCEPT !.pc = "check_duplicates"]
            /\ UNCHANGED <<obs, constraints, uniq, migs>>
    /\ UNCHANGED <<series, ledger, nextId, clock, pc, args, result, now,
                   tseries, seriesOp, batch, idx, counts, pending, insRows, updRows,
                   txnBefore, runBefore, fetched, txns, runs, sync, syncs, status,
                   cancels, input, output>>

\* STEP 2 (lines 66-101): the duplicate-removal step.
Deduplicate ==
    /\ mig.pc = "check_duplicates"
    /\ LET duplicates == duplicate_check_sql(mig.obs)
           left == IF duplicates # {} THEN deduplicate_sql(mig.obs) ELSE mig.obs
       IN  mig' = [mig EXCEPT !.pc = "add_constraint",
                              !.obs = left,
                              !.dedup = Some([before |-> mig.obs, after |-> left,
                                              deleted_count |->
                                                 Cardinality(mig.obs) - Cardinality(left)])]
    /\ UNCHANGED <<series, obs, ledger, nextId, uniq, clock, pc, args, result, now,
                   tseries, seriesOp, batch, idx, counts, pending, insRows, updRows,
                   txnBefore, runBefore, fetched, txns, runs, sync, syncs, status,
                   cancels, input, output, constraints, migs>>

\* STEP 3 and 4 (lines 103-137): ALTER TABLE, then the constraints are read
\* and printed.
AddConstraint ==
    /\ mig.pc = "add_constraint"
    /\ LET outcome == add_constraint_sql(mig.obs, mig.constraints)
       IN  IF outcome # "ok"
           THEN MigrationEnd("raised", Some(outcome), obs, constraints)
           ELSE /\ mig' = [mig EXCEPT !.pc = "test_insert",
                                      !.constraints = @ \cup {constraint_name}]
                /\ UNCHANGED <<obs, constraints, uniq, migs>>
    /\ UNCHANGED <<series, ledger, nextId, clock, pc, args, result, now,
                   tseries, seriesOp, batch, idx, counts, pending, insRows, updRows,
                   txnBefore, runBefore, fetched, txns, runs, sync, syncs, status,
                   cancels, input, output>>

\* STEP 5 (lines 139-166): the test row is upserted and deleted again, and
\* the transaction commits.  fred_observations.series_id references
\* fred_series (database_setup.py line 38): without a series 'TEST_SERIES'
\* the INSERT raises.  The sequence behind id is not rolled back.
TestInsert ==
    /\ mig.pc = "test_insert"
    /\ nextId' = nextId + 1
    /\ IF SeriesRow(series, "TEST_SERIES") = None
       THEN MigrationEnd("raised", Some("ForeignKeyViolation"), obs, constraints)
       ELSE MigrationEnd("committed", None,
                         cleanup_sql(test_insert_sql(mig.obs, nextId, clock)),
                         mig.constraints)
    /\ UNCHANGED <<series, ledger, clock, pc, args, result, now,
                   tseries, seriesOp, batch, idx, counts, pending, insRows, updRows,
                   txnBefore, runBefore, fetched, txns, runs, sync, syncs, status,
                   cancels, input, output>>

\* The observation rows a database can hold when the migration is run: up to
\* MaxStoredRows rows of two dates of one series.
StoredRow(id, date) ==
    [id |-> id, series_id |-> "GDP", observation_date |-> Some(date),
     value |-> Some(100), realtime_start |-> Some(3), realtime_end |-> Some(3),
     created_at |-> 0]
StoredTables ==
    { { StoredRow(i, f[i]) : i \in { j \in 1..MaxStoredRows : f[j] # 0 } } :
        f \in [1..MaxStoredRows -> 0..2] }

\* The series rows of that database: GDP, with or without a series
\* 'TEST_SERIES'.
StoredSeries(ids) ==
    { [series_id |-> s, title |-> "Gross Domestic Product", category |-> None,
       observation_start |-> Some(1), created_at |-> 0, updated_at |-> 0] : s \in ids }

\* add_unique_constraint run against a database that holds observations:
\* without a unique constraint, or with one (and then without duplicates)
\* under PostgreSQL's name or under the migration's.
InitMigration ==
    /\ series \in { StoredSeries({"GDP"}), StoredSeries({"GDP", "TEST_SERIES"}) }
    /\ constraints \in { {}, {default_constraint_name}, {constraint_name} }
    /\ uniq = (constraints # {})
    /\ obs \in { t \in StoredTables : uniq => duplicate_check_sql(t) = {} }
    /\ ledger = <<>>
    /\ nextId = MaxStoredRows + 1
    /\ InitCalls
    /\ input = NoCall
    /\ output = NoOutput
NextMigration ==
    \/ MigrationBegin
    \/ CheckConstraint
    \/ Deduplicate
    \/ AddConstraint
    \/ TestInsert
SpecMigration == InitMigration /\ [][NextMigration]_vars

\* -------------------------------------- the transformers called on their own
\* transform_fred_series(fred_series_data) returns, or raises (value None).
TransformSeries ==
    /\ input.fn = "transform_series_info"
    /\ ~output.done
    /\ output' = [done |-> TRUE, value |-> transform_series_info(input.arg, 0)]
    /\ UNCHANGED <<series, obs, ledger, nextId, uniq, clock, pc, args, result, now,
                   tseries, seriesOp, batch, idx, counts, pending, insRows, updRows,
                   txnBefore, runBefore, fetched, txns, runs, sync, syncs, status,
                   cancels, input, constraints, mig, migs>>

\* FredDataValidator.validate_series_data(series_data) returns; the dict is
\* read, never assigned to.
ValidateSeriesData ==
    /\ input.fn = "validate_series_data"
    /\ ~output.done
    /\ output' = [done |-> TRUE,
                  value |-> [verdict     |-> validate_series_data(input.arg),
                             series_data |-> input.arg]]
    /\ UNCHANGED <<series, obs, ledger, nextId, uniq, clock, pc, args, result, now,
                   tseries, seriesOp, batch, idx, counts, pending, insRows, updRows,
                   txnBefore, runBefore, fetched, txns, runs, sync, syncs, status,
                   cancels, input, constraints, mig, migs>>

\* transform_fred_observations(fred_observations, series_id) returns.
TransformObservations ==
    /\ input.fn = "transform_observations"
    /\ ~output.done
    /\ output' = [done  |-> TRUE,
                  value |-> transform_observations(input.arg.fred_observations,
                                                   input.arg.series_id, 0)]
    /\ UNCHANGED <<series, obs, ledger, nextId, uniq, clock, pc, args, result, now,
                   tseries, seriesOp, batch, idx, counts, pending, insRows, updRows,
                   txnBefore, runBefore, fetched, txns, runs, sync, syncs, status,
                   cancels, input, constraints, mig, migs>>

\* ------------------------------------------------------------ specifications
\* The raw observation records the ingest_series specifications draw from.
IngestRawObservations ==
    { r \in RawObservations :
        \/ r.date = Some("2024-01-01") /\ r.value \in {Some("100"), Some(".")}
        \/ r.date = Some("n/a") }
IngestRawBatches == SeqsUpTo(IngestRawObservations, MaxBatch)

\* The validated batches of the direct calls: every raw record with a date.
UpsertRawBatches == SeqsUpTo({ r \in RawObservations : r.date # Some("n/a") }, MaxBatch)

\* The raw records of the concurrent specifications: two values for one date
\* (the key the callers race on), and a second date for the direct calls.
RaceRawObservations ==
    { r \in RawObservations :
        r.date = Some("2024-01-01") /\ r.value \in {Some("100"), Some(".")} }
RaceRawBatches == SeqsUpTo(RaceRawObservations, MaxBatch)
RaceUpsertRawBatches ==
    SeqsUpTo(RaceRawObservations \cup
               { r \in RawObservations :
                   r.date = Some("2024-04-01") /\ r.value = Some("105") }, MaxBatch)

\* One step of worker p's ingest_series call, its inputs drawn from: the
\* series identifiers ids, the titles and the observation arrays the source
\* returns, and whether the ledger INSERT can be stored.
IngestStep(p, ids, titles, categories, raw_batches, ledger_up) ==
    \/ \E s \in ids, u \in BOOLEAN : Start(p, s, u)
    \/ \E resp \in FetchResponses(RawSeries(args[p].series_id, titles, categories)) :
          FetchSeries(p, resp)
    \/ UpsertSeries(p)
    \/ CommitSeries(p)
    \/ \E resp \in FetchResponses(raw_batches) : FetchObservations(p, resp)
    \/ UpsertObservation(p)
    \/ CommitObservations(p)
    \/ StorageError(p)
    \/ \E stored \in ledger_up : LogSyncResult(p, stored)

\* The steps of ingest_series once it is entered.
IngestBody(p, titles, categories, raw_batches, ledger_up) ==
    \/ \E resp \in FetchResponses(RawSeries(args[p].series_id, titles, categories)) :
          FetchSeries(p, resp)
    \/ UpsertSeries(p)
    \/ CommitSeries(p)
    \/ \E resp \in FetchResponses(raw_batches) : FetchObservations(p, resp)
    \/ UpsertObservation(p)
    \/ CommitObservations(p)
    \/ StorageError(p)
    \/ \E stored \in ledger_up : LogSyncResult(p, stored)

\* One step of worker p's sync_multiple_series call on one of the lists.
SyncStep(p, lists, flags) ==
    \/ \E l \in lists, u \in flags : StartSync(p, l, u)
    \/ SyncIngest(p)
    \/ FinishSync(p)

UpsertStep(p, ids, raw_batches) ==
    \/ \E s \in ids, raw \in raw_batches, t \in 1..(clock + 1) :
          CallUpsertObservations(p, s, raw, t)
    \/ UpsertObservation(p)
    \/ CommitObservations(p)
    \/ StorageError(p)
    \/ ReturnUpsertObservations(p)

\* Concurrent ingest_series calls for one series.
Next == \E p \in Workers :
            IngestStep(p, {"GDP"}, {Some("Gross Domestic Product")}, {None},
                       RaceRawBatches, {TRUE})
Spec == Init /\ [][Next]_vars

\* Concurrent ingest_series calls for different series: each worker has its
\* own.
WorkerSeries(p) == IF p = 1 THEN "GDP" ELSE "UNRATE"
NextDistinct == \E p \in Workers :
                    IngestStep(p, {WorkerSeries(p)}, {Some("Gross Domestic Product")},
                               {None}, RaceRawBatches, {TRUE})
SpecDistinct == Init /\ [][NextDistinct]_vars

\* ingest_series calls one after the other.
NextSeq == IngestStep(1, {"GDP"}, RawTitles, {None}, IngestRawBatches, {TRUE})
SpecSeq == Init /\ [][NextSeq]_vars

\* The direct calls start from a store that holds the series rows and no
\* observation.
InitUpsert ==
    InitWith({ [series_id |-> s, title |-> "Gross Domestic Product", category |-> None,
                observation_start |-> Some(1),
                created_at |-> 0, updated_at |-> 0] : s \in SeriesIds })

\* Concurrent direct calls of _upsert_observations.
NextUpsert == \E p \in Workers : UpsertStep(p, {"GDP"}, RaceUpsertRawBatches)
SpecUpsert == InitUpsert /\ [][NextUpsert]_vars

\* The raw records of the ledger and batch specifications: one point.
OnePointBatches ==
    SeqsUpTo({ r \in RawObservations :
                 r.date = Some("2024-01-01") /\ r.value = Some("100") }, 1)

\* ingest_series calls one after the other with payloads that differ in
\* title and category.
NextMeta ==
    IngestStep(1, {"GDP"}, {Some("Gross Domestic Product"), Some("GDP (revised title)")},
               RawCategories, OnePointBatches, {TRUE})
SpecMeta == Init /\ [][NextMeta]_vars

\* ingest_series and get_sync_status calls one after the other; the ledger
\* INSERT can fail.
LedgerLists == { <<"GDP", "UNRATE">> }
NextLedger ==
    \/ IngestStep(1, SeriesIds, {Some("Gross Domestic Product")}, {None},
                  OnePointBatches, BOOLEAN)
    \/ SyncStep(1, LedgerLists, {TRUE})
    \/ \E s \in SeriesIds, raised \in BOOLEAN : GetSyncStatus(1, s, raised)
SpecLedger == Init /\ [][NextLedger]_vars

\* transform_fred_observations called on its own with the records of one
\* 'observations' array: dates that parse, a missing, an empty and a
\* malformed date; numbers, zero, the sentinel ".", a missing, an empty and
\* an unparseable value; a malformed realtime_start.
TransformRawObservations ==
    { [date |-> d, value |-> v,
       realtime_start |-> Some("2025-08-07"), realtime_end |-> Some("2025-08-07")] :
        d \in {None, Some(""), Some("n/a"), Some("2024-01-01"), Some("2024-04-01")},
        v \in {None, Some("."), Some("abc"), Some("0"), Some("100")} }
      \cup { [date |-> Some("2024-01-01"), value |-> Some(""),
              realtime_start |-> Some("07/08/2025"), realtime_end |-> None] }
InitTransformObservations ==
    /\ InitStore({})
    /\ input \in { [fn |-> "transform_observations",
                     arg |-> [fred_observations |-> l, series_id |-> "GDP"]] :
                       l \in SeqsUpTo(TransformRawObservations, MaxRecords) }
    /\ output = NoOutput
NextTransformObservations == TransformObservations
SpecTransformObservations ==
    InitTransformObservations /\ [][NextTransformObservations]_vars

\* transform_fred_series called on its own: payloads with a missing, an
\* empty, a usual and an overlong id; a missing, an empty, a blank, a usual,
\* a padded and an overlong title; a missing, an empty, a malformed and a
\* well-formed observation_start.
TransformRawSeries ==
    { [id |-> i, title |-> t, category_id |-> c, observation_start |-> d] :
        i \in {None, Some(""), Some("GDP"), Some(X50 \o "y")},
        t \in {None, Some(""), Some("   "), Some("Gross Domestic Product"),
               Some("  Gross Domestic Product "), Some(X500 \o "y")},
        c \in RawCategories,
        d \in {None, Some(""), Some("1947-13-01"), Some("2024-01-01")} }

\* validate_series_data called on its own: dicts that have or lack the keys
\* series_id, title and units.
ValidatorKeys == {"series_id", "title", "units"}
ValidatorStrings(key) ==
    CASE key = "series_id" -> {"", "GDP", X50, X50 \o "y"}
      [] key = "title" -> {"", "Gross Domestic Product"}
      [] OTHER -> {"", "Billions of Dollars"}
ValidatorDicts ==
    UNION { { d \in [keys -> UNION { ValidatorStrings(k) : k \in ValidatorKeys }] :
                \A k \in keys : d[k] \in ValidatorStrings(k) } :
            keys \in SUBSET ValidatorKeys }

InitSeriesFunctions ==
    /\ InitStore({})
    /\ input \in { [fn |-> "transform_series_info", arg |-> d] : d \in TransformRawSeries }
                 \cup { [fn |-> "validate_series_data", arg |-> d] : d \in ValidatorDicts }
    /\ output = NoOutput
NextSeriesFunctions == TransformSeries \/ ValidateSeriesData
SpecSeriesFunctions == InitSeriesFunctions /\ [][NextSeriesFunctions]_vars

\* ingest_series runs that follow one another, the source revising a value
\* and adding a date.
ReviseRawObservations ==
    { r \in RawObservations :
        \/ r.date = Some("2024-01-01") /\ r.value \in {Some("100"), Some("105")}
        \/ r.date = Some("2024-04-01") /\ r.value = Some("105") }
NextRevise ==
    IngestStep(1, {"GDP"}, {Some("Gross Domestic Product"), Some("GDP (revised title)")},
               {None}, SeqsUpTo(ReviseRawObservations, MaxBatch), {TRUE})
SpecRevise == Init /\ [][NextRevise]_vars

\* ingest_series called with a days_lookback.
NextWindow ==
    \/ \E s \in SeriesIds, u \in BOOLEAN, d \in DaysLookbacks : StartLookback(1, s, u, d)
    \/ IngestBody(1, {Some("Gross Domestic Product")}, {None}, OnePointBatches, {TRUE})
SpecWindow == Init /\ [][NextWindow]_vars

\* sync_multiple_series calls that may be cancelled.
CancelLists == { <<"GDP", "UNRATE">>, <<"GDP", "GDP">> }
NextCancel ==
    \/ SyncStep(1, CancelLists, {TRUE})
    \/ IngestBody(1, {Some("Gross Domestic Product"), Some("GDP (revised title)")},
                  {None}, IngestRawBatches, {TRUE})
    \/ Cancel(1)
SpecCancel == Init /\ [][NextCancel]_vars

\* sync_multiple_series on lists of up to MaxSeries series.
SyncSeriesIds == <<"GDP", "UNRATE", "CPIAUCSL", "DGS10">>
SyncLists ==
    { SubSeq(SyncSeriesIds, 1, n) : n \in 0..MaxSeries } \cup { <<"GDP", "GDP">> }
NextSync ==
    \/ SyncStep(1, SyncLists, BOOLEAN)
    \/ IngestBody(1, {Some("Gross Domestic Product")}, {None}, OnePointBatches, {TRUE})
SpecSync == Init /\ [][NextSync]_vars

\* Direct calls of _upsert_observations one after the other.
NextUpsertSeq == UpsertStep(1, SeriesIds, UpsertRawBatches)
SpecUpsertSeq == InitUpsert /\ [][NextUpsertSeq]_vars

\* ---------------------------------------------------------------- properties
DistinctKeys(b) == \A i, j \in DOMAIN b : Key(b[i]) = Key(b[j]) => i = j

\* The last point of batch b for key k.
LastFor(b, k) ==
    b[CHOOSE i \in DOMAIN b :
        Key(b[i]) = k /\ \A j \in DOMAIN b : Key(b[j]) = k => j <= i]

\* C1 (idempotence): when a batch with distinct observation dates is
\* committed to an empty observation store and the same batch is committed
\* again, the second transaction leaves the rows the first one left and
\* returns added = 0 and updated = len(batch).
C1_Idempotence ==
    \A i \in DOMAIN txns : i + 1 \in DOMAIN txns =>
        LET first == txns[i]
            second == txns[i + 1]
        IN  (/\ first.before = {}
             /\ second.batch = first.batch
             /\ DistinctKeys(first.batch))
            => /\ second.before = first.after
               /\ second.after = first.after
               /\ second.added = 0
               /\ second.updated = Len(second.batch)

\* C1 witness: a batch of two dates has been committed twice, first to the
\* empty store.
C1_Witness ==
    /\ Len(txns) = 2
    /\ txns[1].before = {}
    /\ txns[2].batch = txns[1].batch
    /\ Len(txns[1].batch) = 2
    /\ DistinctKeys(txns[1].batch)
    /\ Cardinality(obs) = 2

\* C5 (revision overwrite, last write wins): after every committed upsert
\* each key of its batch has exactly one row, and the row's value,
\* realtime_start and realtime_end are those of the last point upserted for
\* the key, a null value included.
C5_LastWriteWins ==
    \A i \in DOMAIN txns :
        \A k \in Keys(Range(txns[i].batch)) :
            LET rows == { r \in txns[i].after : Key(r) = k }
                last == LastFor(txns[i].batch, k)
            IN  /\ Cardinality(rows) = 1
                /\ \A r \in rows : /\ r.value = last.value
                                   /\ r.realtime_start = last.realtime_start
                                   /\ r.realtime_end = last.realtime_end

\* C5 witness: a committed upsert has replaced a stored number by null.
C5_Witness ==
    \E i \in DOMAIN txns :
        \E old \in txns[i].before, new \in txns[i].after :
            /\ new.id = old.id
            /\ old.value = Some(100)
            /\ new.value = None
            /\ new.realtime_end # old.realtime_end

\* C6 (the batch is a partial view): a committed upsert leaves every row
\* whose key is not in its batch as it was, for the batch's series and for
\* every other series.
C6_Frame ==
    \A i \in DOMAIN txns :
        \A r \in txns[i].before :
            Key(r) \notin Keys(Range(txns[i].batch)) => r \in txns[i].after

\* C6 witness: an upsert that wrote one date of a series has left a stored
\* row of another date of the same series in place.
C6_Witness ==
    \E i \in DOMAIN txns :
        \E r \in txns[i].before :
            /\ Key(r) \notin Keys(Range(txns[i].batch))
            /\ \E o \in Range(txns[i].batch) : o.series_id = r.series_id
            /\ r \in obs
            /\ txns[i].added = 1

\* C2 (uniqueness under concurrency): whatever the interleaving of two
\* concurrent _upsert_observations transactions on one key, the committed
\* store never holds two observation rows for one (series_id,
\* observation_date).
C2_NoDuplicateUnderRace ==
    \A r1, r2 \in obs : Key(r1) = Key(r2) => r1.id = r2.id

\* C3 (race resolution): with the unique constraint in force, no ingestion
\* that raced on a key ends failed with the duplicate-key error; the loser
\* retries and finishes successfully.
C3_LoserRetries ==
    uniq => \A i \in DOMAIN runs :
                runs[i].result.error_message # Some("UniqueViolation")

\* C4 (uniqueness, single writer): in every state reached by ingest_series
\* runs that do not overlap, each stored (series_id, observation_date) has
\* exactly one observation row.
C4_UniqueKeys ==
    \A k \in Keys(obs) : Cardinality({ r \in obs : Key(r) = k }) = 1

\* C4 witness: a run whose batch names one date twice has committed, to a
\* store without the unique constraint, and the date has a row.
C4_Witness ==
    /\ ~uniq
    /\ \E i \in DOMAIN txns :
          /\ Len(txns[i].batch) = 2
          /\ ~DistinctKeys(txns[i].batch)
          /\ Keys(Range(txns[i].batch)) \subseteq Keys(obs)

\* C7 (batch atomicity on abort): when the observation transaction of
\* ingest_series has raised a storage error, in the loop or at commit, the
\* observation table is what it was when the transaction opened.
C7_RollbackOnAbort ==
    \A p \in Workers :
        (/\ pc[p] = "log"
         /\ ~result[p].success
         /\ fetched[p].observations # None)
        => obs = txnBefore[p]

\* C7 witness: the transaction failed after its loop had updated a stored
\* row and added another, and the stored row is still there.
C7_Witness ==
    /\ pc[1] = "log"
    /\ ~result[1].success
    /\ result[1].error_message = Some("SQLAlchemyError")
    /\ fetched[1].observations # None
    /\ Len(batch[1]) = 2
    /\ obs # {}
    /\ obs = txnBefore[1]

\* A finished run got past the commit of its series session: it counted the
\* observation fetch, or that fetch is what failed.
SeriesCommitted(r) ==
    \/ r.result.api_calls_used = 2
    \/ r.result.api_calls_used = 1 /\ r.result.error_message = Some(FetchError)

\* The valid batch a run made of the observations it fetched.
RunBatch(r) ==
    IF r.fetched.observations = None THEN <<>>
    ELSE valid_observations(
             transform_observations(r.fetched.observations[1], r.series_id, 0))

\* C8 as stated (one transactional scope per run): a run that ends in a
\* fatal error leaves none of its writes, neither to fred_series nor to
\* fred_observations.
C8_SingleTransaction ==
    \A i \in DOMAIN runs :
        ~runs[i].result.success =>
            /\ runs[i].after.series = runs[i].before.series
            /\ runs[i].after.obs = runs[i].before.obs

\* C8 amended (two transactional scopes per run): the series write commits
\* first, in a transaction of its own; the observation batch is written in
\* a second, single transaction.  A run that ends in a fatal error leaves
\* no observation write, and leaves the series write exactly when the error
\* came after the series commit; a run that succeeds leaves the series row
\* and a row for every key of its batch.
C8_TwoTransactions ==
    \A i \in DOMAIN runs :
        LET r == runs[i] IN
        /\ ~r.result.success => r.after.obs = r.before.obs
        /\ (~r.result.success /\ ~SeriesCommitted(r)) => r.after.series = r.before.series
        /\ SeriesCommitted(r) => SeriesRow(r.after.series, r.series_id) # None
        /\ r.result.success =>
              /\ SeriesCommitted(r)
              /\ Keys(Range(RunBatch(r))) \subseteq Keys(r.after.obs)

\* C8 witness: a run inserted the series row, then failed in its
\* observation transaction: the row is stored, no observation is.
C8_Witness ==
    \E i \in DOMAIN runs :
        /\ ~runs[i].result.success
        /\ runs[i].result.series_added
        /\ runs[i].result.api_calls_used = 2
        /\ runs[i].result.error_message = Some("SQLAlchemyError")
        /\ runs[i].before.series = {}
        /\ runs[i].after.series # {}
        /\ runs[i].after.obs = {}

\* The stored rows without the local bookkeeping columns (created_at,
\* updated_at, the surrogate id).
SeriesContent(rows) ==
    { [series_id |-> r.series_id, title |-> r.title, category |-> r.category] : r \in rows }
ObsContent(rows) ==
    { [series_id |-> r.series_id, observation_date |-> r.observation_date,
       value |-> r.value, realtime_start |-> r.realtime_start,
       realtime_end |-> r.realtime_end] : r \in rows }

\* What one successful run r leaves when started from the tables `before`.
ExpectedSeries(before, r) ==
    LET title == r.fetched.series[1].title[1]
        category == r.fetched.series[1].category_id
        stored == SeriesRow(before.series, r.series_id)
    IN  IF stored = None
        THEN SeriesContent(before.series) \cup
               { [series_id |-> r.series_id, title |-> title, category |-> category] }
        ELSE IF r.update_existing
        THEN { IF c.series_id = r.series_id
               THEN [c EXCEPT !.title = title,
                              !.category = IF category = None THEN @ ELSE category]
               ELSE c :
                 c \in SeriesContent(before.series) }
        ELSE SeriesContent(before.series)

ExpectedObs(before, r) ==
    LET b == RunBatch(r) IN
    ObsContent({ o \in before.obs : Key(o) \notin Keys(Range(b)) })
      \cup { [series_id |-> k[1], observation_date |-> k[2],
              value |-> LastFor(b, k).value,
              realtime_start |-> LastFor(b, k).realtime_start,
              realtime_end |-> LastFor(b, k).realtime_end] : k \in Keys(Range(b)) }

\* The retry g of the failed run f: the same call, and the source answers
\* what it answered f as far as f got.
IsRetry(f, g) ==
    /\ ~f.result.success
    /\ g.result.success
    /\ g.series_id = f.series_id
    /\ g.update_existing = f.update_existing
    /\ f.fetched.series \in {None, g.fetched.series}
    /\ f.fetched.observations \in {None, g.fetched.observations}

\* C9 (retry convergence): when a failed ingest_series run is retried
\* against the same source data and succeeds, the stored series and
\* observation rows, bookkeeping timestamps aside, are those of a single
\* successful run started where the failed one started.
C9_RetryConverges ==
    \A i \in DOMAIN runs : i + 1 \in DOMAIN runs =>
        LET f == runs[i]
            g == runs[i + 1]
        IN  IsRetry(f, g) =>
              /\ SeriesContent(g.after.series) = ExpectedSeries(f.before, g)
              /\ ObsContent(g.after.obs) = ExpectedObs(f.before, g)

\* C9 witness: the first run inserted the series and then lost its
\* observation transaction; the retry stored the batch.
C9_Witness ==
    /\ Len(runs) = 2
    /\ IsRetry(runs[1], runs[2])
    /\ runs[1].result.series_added
    /\ runs[1].result.error_message = Some("SQLAlchemyError")
    /\ runs[1].fetched.observations # None
    /\ runs[1].after.series # {}
    /\ runs[2].after.obs # {}

\* C10 (metadata skip on exists): a run with update_existing = FALSE for a
\* stored series leaves the stored row as it was and reports series_added
\* = FALSE; a run for a series that is not stored inserts it with the
\* title fetched and reports series_added = TRUE.
C10_SkipOnExists ==
    \A i \in DOMAIN runs :
        LET r == runs[i]
            stored == SeriesRow(r.before.series, r.series_id)
        IN  /\ (stored # None /\ ~r.update_existing) =>
                  /\ r.after.series = r.before.series
                  /\ ~r.result.series_added
            /\ (stored = None /\ SeriesCommitted(r)) =>
                  /\ r.result.series_added
                  /\ SeriesRow(r.after.series, r.series_id) # None
                  /\ SeriesRow(r.after.series, r.series_id)[1].title
                       = r.fetched.series[1].title[1]

\* C10 witness: the second run fetched another title than the one stored
\* by the first, with update_existing = FALSE, and went on to its
\* observations; the stored title is the first one.
C10_Witness ==
    /\ Len(runs) = 2
    /\ runs[1].result.series_added
    /\ ~runs[2].update_existing
    /\ SeriesCommitted(runs[2])
    /\ ~runs[2].result.series_added
    /\ \E r \in series : /\ r.title = "Gross Domestic Product"
                         /\ runs[2].fetched.series[1].title = Some("GDP (revised title)")

\* C11 (metadata update): a run with update_existing = TRUE whose series
\* session commits leaves, for a stored series, the stored row with every
\* value of the incoming descriptor (title, updated_at, and category when
\* the payload carries one) and its original created_at, and reports
\* series_added = FALSE; for a series that is not stored it inserts the
\* descriptor and reports series_added = TRUE.
C11_UpdateOverwrites ==
    \A i \in DOMAIN runs :
        LET r == runs[i]
            stored == SeriesRow(r.before.series, r.series_id)
            left == SeriesRow(r.after.series, r.series_id)
            incoming == r.fetched.series[1]
        IN  (r.update_existing /\ SeriesCommitted(r)) =>
              /\ left # None
              /\ left[1].title = incoming.title[1]
              /\ left[1].updated_at = r.started
              /\ incoming.category_id # None => left[1].category = incoming.category_id
              /\ IF stored # None
                 THEN /\ left[1].created_at = stored[1].created_at
                      /\ incoming.category_id = None => left[1].category = stored[1].category
                      /\ ~r.result.series_added
                 ELSE /\ left[1].created_at = r.started
                      /\ left[1].category = incoming.category_id
                      /\ r.result.series_added

\* C11 witness: the second run, with update_existing = TRUE, replaced the
\* stored title and category and kept the created_at of the first run.
C11_Witness ==
    /\ Len(runs) = 2
    /\ runs[2].update_existing
    /\ SeriesCommitted(runs[2])
    /\ \E old \in runs[2].before.series, new \in runs[2].after.series :
          /\ new.title # old.title
          /\ old.category = None
          /\ new.category = Some("32991")
          /\ new.created_at = 1
          /\ new.updated_at = 2

\* The run appended one ledger row, for its series.
AppendedOne(r) ==
    /\ Len(r.after.ledger) = Len(r.before.ledger) + 1
    /\ SubSeq(r.after.ledger, 1, Len(r.before.ledger)) = r.before.ledger
    /\ r.after.ledger[Len(r.after.ledger)].series_id = r.series_id

LastLedgerRow(r) == r.after.ledger[Len(r.after.ledger)]

\* The runs of the sync_multiple_series call y, in the order of its list.
SyncRun(y, j) == runs[y.first_run + j - 1]

\* C12 (batch isolation across series): in a sync_multiple_series call where
\* the fetch of some series raised, every series is ingested, every series
\* that met no error has a ledger row with success = TRUE, and the summary
\* counts the series without error as successful and the others as failed.
C12_BatchIsolation ==
    \A k \in DOMAIN syncs :
        LET y == syncs[k]
            n == Len(y.series_ids)
            failing == { j \in 1..n : SyncRun(y, j).result.error_message # None }
        IN  (\E j \in 1..n : SyncRun(y, j).result.error_message = Some(FetchError)) =>
              /\ \A j \in 1..n : SyncRun(y, j).series_id = y.series_ids[j]
              /\ \A j \in (1..n) \ failing :
                    /\ SyncRun(y, j).result.success
                    /\ AppendedOne(SyncRun(y, j))
                    /\ LastLedgerRow(SyncRun(y, j)).success
              /\ y.summary.successful_series = n - Cardinality(failing)
              /\ y.summary.failed_series = Cardinality(failing)

\* C13 (failure is recorded in the ledger): every ingest_series run that
\* fails has appended a ledger row for its series with success = FALSE and
\* the error detail, whether or not the series was stored.
C13_FailureRecorded ==
    \A i \in DOMAIN runs :
        ~runs[i].result.success =>
            /\ AppendedOne(runs[i])
            /\ ~LastLedgerRow(runs[i]).success
            /\ LastLedgerRow(runs[i]).error_message = runs[i].result.error_message
            /\ LastLedgerRow(runs[i]).error_message # None

\* C14 (one ledger row per attempt): every ingest_series run that returns,
\* its ledger INSERT not having failed, has appended exactly one ledger row
\* for its series: on success with observations, on success with an empty
\* observation result, and on failure.
C14_OneRowPerAttempt ==
    \A i \in DOMAIN runs :
        runs[i].ledger_write # "failed" => AppendedOne(runs[i])

\* C15 (ledger failures are swallowed): the step that ends ingest_series
\* after _log_sync_result never leaves an exception behind; it returns the
\* result built before the ledger write, whether the write succeeded or
\* failed, and it changes no series or observation row; when the write
\* failed the ledger is unchanged too.
C15_LedgerFailureSwallowed ==
    [][\A p \in Workers :
          (pc[p] = "log" /\ pc'[p] # "log") =>
             /\ pc'[p] \in {"idle", "sync_loop"}
             /\ Len(runs') = Len(runs) + 1
             /\ runs'[Len(runs')].result = result[p]
             /\ runs'[Len(runs')].ledger_write = "failed" => ledger' = ledger
             /\ series' = series
             /\ obs' = obs]_vars

C15_Witness ==
    \E i \in DOMAIN runs :
        /\ runs[i].ledger_write = "failed"
        /\ runs[i].result.success
        /\ runs[i].result.observations_added > 0
        /\ runs[i].after.obs # runs[i].before.obs
        /\ runs[i].after.obs = obs
        /\ ledger = <<>>

\* C16 (the ledger is append-only): every step of ingest_series,
\* sync_multiple_series and get_sync_status leaves every existing
\* fred_sync_log row in place and unchanged.
C16_AppendOnly ==
    [][\A i \in DOMAIN ledger : i \in DOMAIN ledger' /\ ledger'[i] = ledger[i]]_vars

C16_Witness ==
    /\ Len(ledger) = 2
    /\ ledger[1].series_id = ledger[2].series_id
    /\ ledger[1].sync_date < ledger[2].sync_date
    /\ status[1].asked

\* C17 (get_sync_status returns the latest attempt): when the query does not
\* raise, the answer is None exactly when the ledger holds no row of the
\* series asked for, and otherwise it is the dict of a row of that series
\* whose sync_date is the greatest among the rows of that series, whatever
\* rows other series have; when the query raises the answer is None.
C17_LatestOrNone ==
    \A p \in Workers :
        LET q == status[p]
            own == { i \in DOMAIN q.seen : q.seen[i].series_id = q.series_id }
        IN  q.asked =>
              IF q.raised
              THEN q.returned = None
              ELSE /\ (q.returned = None) <=> (own = {})
                   /\ q.returned # None =>
                        /\ q.returned[1].series_id = q.series_id
                        /\ \E i \in own :
                              /\ q.returned[1].last_sync = q.seen[i].sync_date
                              /\ q.returned[1].success = q.seen[i].success
                              /\ q.returned[1].records_added = q.seen[i].records_added
                              /\ q.returned[1].records_updated = q.seen[i].records_updated
                              /\ q.returned[1].error_message = q.seen[i].error_message
                              /\ q.returned[1].api_calls_used = q.seen[i].api_calls_used
                        /\ \A i \in own : q.seen[i].sync_date <= q.returned[1].last_sync

C17_Witness ==
    /\ status[1].asked
    /\ ~status[1].raised
    /\ status[1].series_id = "GDP"
    /\ Len(status[1].seen) = 3
    /\ status[1].seen[1].series_id = "GDP"
    /\ status[1].seen[2].series_id = "GDP"
    /\ status[1].seen[3].series_id = "UNRATE"
    /\ status[1].seen[3].sync_date > status[1].seen[2].sync_date
    /\ status[1].returned # None
    /\ status[1].returned[1].last_sync = status[1].seen[2].sync_date

\* C18 (a fetch failure is an error, never silent data loss): a run whose
\* metadata fetch or observation fetch failed returns success = FALSE with
\* an error_message, got no observations, and leaves fred_observations as
\* it found it.
C18_FetchFailureIsError ==
    \A i \in DOMAIN runs :
        LET r == runs[i]
        IN  (r.fetched.series = None \/ r.result.error_message = Some(FetchError)) =>
               /\ ~r.result.success
               /\ r.result.error_message # None
               /\ r.fetched.observations = None
               /\ r.result.observations_added = 0
               /\ r.result.observations_updated = 0
               /\ r.after.obs = r.before.obs

C18_Witness ==
    /\ Len(runs) = 2
    /\ runs[2].result.error_message = Some(FetchError)
    /\ runs[2].before.obs # {}
    /\ runs[2].after.obs = runs[2].before.obs
    /\ runs[2].result.api_calls_used = 1
    /\ ~runs[2].result.success

\* C19 (a persistence failure does not crash the orchestrator): no exception
\* leaves ingest_series or sync_multiple_series; every finished
\* sync_multiple_series call has run ingest_series once for every entry of
\* its list, in order, whatever storage errors some of them met, and its
\* summary counts every series that failed, a storage failure included, in
\* failed_series and the others in successful_series.
C19_PersistenceFailureContained ==
    /\ \A p \in Workers : pc[p] # "raised"
    /\ \A k \in DOMAIN syncs :
          LET y == syncs[k]
              n == Len(y.series_ids)
              d == y.summary.detailed_results
          IN  /\ y.summary.total_series = n
              /\ Len(d) = n
              /\ \A j \in 1..n :
                    /\ SyncRun(y, j).series_id = y.series_ids[j]
                    /\ d[j] = SyncRun(y, j).result
                    /\ d[j].error_message = Some("SQLAlchemyError") => ~d[j].success
              /\ y.summary.failed_series = Cardinality({ j \in 1..n : ~d[j].success })
              /\ y.summary.successful_series = Cardinality({ j \in 1..n : d[j].success })

C19_Witness ==
    \E k \in DOMAIN syncs :
        LET d == syncs[k].summary.detailed_results
        IN  /\ Len(d) = 3
            /\ d[2].error_message = Some("SQLAlchemyError")
            /\ d[2].api_calls_used = 2
            /\ d[3].success
            /\ d[3].observations_added > 0
            /\ syncs[k].summary.failed_series = 1
            /\ syncs[k].summary.successful_series = 2

\* A finished run whose metadata stage failed: the metadata fetch raised,
\* the payload has no usable title or identifier, or the upsert of the
\* descriptor met a storage error.
MetadataFailed(r) ==
    \/ r.fetched.series = None
    \/ /\ r.fetched.series # None
       /\ \/ r.fetched.series[1].title \in {None, Some("")}
          \/ r.fetched.series[1].id \in {None, Some("")}
    \/ /\ r.result.api_calls_used = 1
       /\ r.result.error_message \in {Some("SQLAlchemyError"), Some("PrimaryKeyViolation")}

\* C20 (metadata before observations): while a run fetches or stores
\* observations its metadata session is closed and the store holds what the
\* metadata upsert committed; and a run whose metadata fetch, normalisation,
\* validation or upsert failed made no observation fetch and wrote no series
\* and no observation row.
C20_MetadataBeforeObservations ==
    /\ \A p \in Workers :
          pc[p] \in {"fetch_observations", "upsert_observations"} =>
             /\ seriesOp[p] = "none"
             /\ tseries[p] # None
             /\ SeriesRow(series, args[p].series_id) # None
             /\ series = flush_series(runBefore[p].series,
                                      upsert_series(SeriesRow(runBefore[p].series,
                                                              args[p].series_id),
                                                    args[p].update_existing),
                                      tseries[p][1])
    /\ \A i \in DOMAIN runs :
          MetadataFailed(runs[i]) =>
             /\ ~runs[i].result.success
             /\ runs[i].fetched.observations = None
             /\ runs[i].result.api_calls_used <= 1
             /\ runs[i].after.series = runs[i].before.series
             /\ runs[i].after.obs = runs[i].before.obs

C20_Witness ==
    /\ Len(runs) = 2
    /\ runs[1].result.success
    /\ runs[1].result.observations_added > 0
    /\ runs[2].fetched.series # None
    /\ MetadataFailed(runs[2])
    /\ runs[2].after.series = runs[1].after.series
    /\ runs[2].after.obs = runs[1].after.obs

\* The run of worker p has a database transaction open: its series session
\* holds a change, or its observation session holds flushed or unflushed
\* writes.
OpenTransaction(p) ==
    \/ seriesOp[p] # "none"
    \/ pending[p] # <<>>
    \/ insRows[p] # {}
    \/ updRows[p] # {}

\* C21 (no transaction spans a network call): while a fetch of an
\* ingest_series run is in progress the run has no transaction open, and a
\* transaction is only open once the fetch whose data it persists has
\* returned.
C21_NoTransactionAcrossFetch ==
    \A p \in Workers :
        /\ pc[p] \in {"fetch_series", "fetch_observations"} => ~OpenTransaction(p)
        /\ seriesOp[p] # "none" => fetched[p].series # None /\ tseries[p] # None
        /\ (pending[p] # <<>> \/ insRows[p] # {} \/ updRows[p] # {}) =>
              /\ fetched[p].observations # None
              /\ seriesOp[p] = "none"

C21_Witness ==
    /\ Len(runs) = 1
    /\ runs[1].result.observations_added > 0
    /\ obs # {}
    /\ args[1].update_existing
    /\ pc[1] = "fetch_observations"
    /\ series # runs[1].after.series

\* C22 (fetch window policy): a run that fetched observations asked for the
\* full history when the series was not stored before the run or the run
\* was not incremental (update_existing = FALSE), and otherwise for the
\* observations of the last days_lookback days.
C22_FetchWindow ==
    \A i \in DOMAIN runs :
        LET r == runs[i]
            first_time == SeriesRow(r.before.series, r.series_id) = None
        IN  r.fetched.start_date # <<>> =>
               r.fetched.start_date[1] =
                  IF first_time \/ ~r.update_existing THEN None
                  ELSE Some(Today - r.days_lookback)

\* C23 (cancellation): a cancellation of sync_multiple_series closes at most
\* one open transaction and commits nothing of it: the committed series,
\* observation and ledger rows, those of the series already processed
\* included, are after the cancellation what they were before it, and the
\* history of finished runs is untouched.
C23_CancellationKeepsCommitted ==
    \A k \in DOMAIN cancels :
        LET c == cancels[k]
        IN  /\ c.open <= 1
            /\ c.after = c.before
            /\ \A i \in 1..c.finished :
                  /\ { r.series_id : r \in runs[i].after.series }
                        \subseteq { r.series_id : r \in c.after.series }
                  /\ Keys(runs[i].after.obs) \subseteq Keys(c.after.obs)
                  /\ \A j \in DOMAIN runs[i].after.ledger :
                        /\ j \in DOMAIN c.after.ledger
                        /\ c.after.ledger[j] = runs[i].after.ledger[j]

C23_Witness ==
    \E k \in DOMAIN cancels :
        /\ cancels[k].at = "upsert_observations"
        /\ cancels[k].processed = 1
        /\ cancels[k].held > 0
        /\ cancels[k].after.obs # {}
        /\ cancels[k].after.ledger # <<>>
        /\ obs = cancels[k].after.obs

\* The rows of the tables that belong to other series than series_id.
OtherSeriesRows(table, series_id) == { r \in table : r.series_id # series_id }

\* Worker p takes the step.
StepOf(p) == pc'[p] # pc[p] \/ idx'[p] # idx[p]

\* The store both runs leave when they run one after the other from the
\* empty store, bookkeeping columns aside.
SequentialSeries(r1, r2) ==
    ExpectedSeries(NoSnapshot, r1) \cup ExpectedSeries(NoSnapshot, r2)
SequentialObs(r1, r2) ==
    ExpectedObs(NoSnapshot, r1) \cup ExpectedObs(NoSnapshot, r2)

\* C24 (concurrent ingestion of different series is safe): when
\* ingest_series runs for different series interleave, no run fails for a
\* reason other than a failed fetch or a storage outage, so a run whose
\* fetches and sessions work succeeds; no step of a run changes a series or
\* observation row of another series; and when two successful runs for
\* different series have finished, the store holds what the two leave when
\* run one after the other.
C24_DistinctSeriesSafe ==
    /\ [](/\ \A i \in DOMAIN runs :
               /\ runs[i].result.error_message
                     \in {None, Some(FetchError), Some("SQLAlchemyError")}
               /\ runs[i].result.error_message = None => runs[i].result.success
          /\ (/\ Len(runs) = 2
              /\ runs[1].series_id # runs[2].series_id
              /\ runs[1].result.success
              /\ runs[2].result.success)
             => /\ SeriesContent(series) = SequentialSeries(runs[1], runs[2])
                /\ ObsContent(obs) = SequentialObs(runs[1], runs[2])
                /\ \A k \in Keys(obs) : Cardinality({ r \in obs : Key(r) = k }) = 1)
    /\ [][\A p \in Workers :
             (StepOf(p) /\ args[p].call = "ingest_series") =>
                /\ OtherSeriesRows(series', args'[p].series_id)
                      = OtherSeriesRows(series, args'[p].series_id)
                /\ OtherSeriesRows(obs', args'[p].series_id)
                      = OtherSeriesRows(obs, args'[p].series_id)]_vars

C24_Witness ==
    /\ Len(runs) = 2
    /\ runs[1].series_id # runs[2].series_id
    /\ runs[1].result.success
    /\ runs[2].result.success
    /\ runs[1].started < runs[2].started
    /\ runs[1].before.obs = {}
    /\ runs[2].before.obs = {}
    /\ runs[2].before.series = {}
    /\ runs[1].result.observations_added > 0
    /\ runs[2].result.observations_added > 0
    /\ Cardinality(obs) = 2
    /\ \E a, b \in obs : a.series_id # b.series_id /\ a.observation_date = b.observation_date
                         /\ a.value # b.value

\* C25 (ingestion never deletes observations): every step of ingest_series
\* and sync_multiple_series, of a successful call or of a failed one, leaves
\* every stored (series_id, observation_date) key in the store.
C25_KeysOnlyGrow ==
    [][Keys(obs) \subseteq Keys(obs')]_vars

C25_Witness ==
    \E i, j \in DOMAIN runs :
        /\ i < j
        /\ runs[i].series_id = runs[j].series_id
        /\ runs[i].result.observations_added > 0
        /\ ~runs[j].result.success
        /\ runs[j].result.api_calls_used = 2
        /\ \E k \in DOMAIN runs :
              /\ j < k
              /\ runs[k].result.success
              /\ runs[k].series_id # runs[i].series_id
              /\ runs[k].result.observations_added > 0
        /\ Keys(runs[i].after.obs) \subseteq Keys(obs)
        /\ Cardinality(Keys(obs)) = 2

\* The sum of api_calls_used over the results d.
RECURSIVE SumApiCalls(_)
SumApiCalls(d) ==
    IF d = <<>> THEN 0 ELSE d[1].api_calls_used + SumApiCalls(Tail(d))

\* C26 (aggregate summary): in every summary sync_multiple_series returned,
\* successful_series + failed_series = total_series = len(series_ids), and
\* total_api_calls is the sum of api_calls_used over detailed_results.
C26_AggregateSummary ==
    \A k \in DOMAIN syncs :
        LET m == syncs[k].summary
        IN  /\ m.successful_series + m.failed_series = m.total_series
            /\ m.total_series = Len(syncs[k].series_ids)
            /\ m.total_api_calls = SumApiCalls(m.detailed_results)

C26_Witness ==
    \E k \in DOMAIN syncs :
        LET m == syncs[k].summary
        IN  /\ m.total_series = 3
            /\ m.successful_series = 2
            /\ m.failed_series = 1
            /\ m.total_api_calls = 5
            /\ \E j \in 1..3 : /\ ~m.detailed_results[j].success
                               /\ m.detailed_results[j].api_calls_used = 1

\* The records of a raw array whose date is present and parses.
WellDated(fred_observations) ==
    SelectSeq(fred_observations,
              LAMBDA r : r.date \in {Some("2024-01-01"), Some("2024-04-01")})

\* C27 (partial-batch tolerance): transform_fred_observations returns one
\* point for each raw record whose date is present and parses, in input
\* order, with that date and the caller's series_id, and nothing for the
\* records whose date is missing, empty or malformed.
C27_PartialBatch ==
    (input.fn = "transform_observations" /\ output.done) =>
        LET kept == WellDated(input.arg.fred_observations)
        IN  /\ Len(output.value) = Len(kept)
            /\ \A i \in DOMAIN kept :
                  /\ output.value[i].series_id = input.arg.series_id
                  /\ output.value[i].observation_date =
                        IF kept[i].date = Some("2024-01-01") THEN Some(1) ELSE Some(2)

C27_Witness ==
    /\ input.fn = "transform_observations"
    /\ output.done
    /\ Len(input.arg.fred_observations) = 3
    /\ input.arg.fred_observations[1].date = Some("2024-04-01")
    /\ input.arg.fred_observations[2].date = Some("n/a")
    /\ input.arg.fred_observations[3].date = Some("2024-01-01")
    /\ Len(output.value) = 2
    /\ output.value[1].observation_date = Some(2)
    /\ output.value[2].observation_date = Some(1)

\* C28 (null-value semantics): the value of a raw record never makes
\* transform_fred_observations drop it; a missing or empty value, the
\* sentinel "." and a string that is no number give a point with value
\* None, "0" gives the number 0 and "100" the number 100.
C28_NullValueSemantics ==
    (input.fn = "transform_observations" /\ output.done) =>
        LET kept == WellDated(input.arg.fred_observations)
        IN  /\ Len(output.value) = Len(kept)
            /\ \A i \in DOMAIN kept :
                  i \in DOMAIN output.value =>
                     output.value[i].value =
                        CASE kept[i].value = Some("0") -> Some(0)
                          [] kept[i].value = Some("100") -> Some(100)
                          [] OTHER -> None

C28_Witness ==
    /\ input.fn = "transform_observations"
    /\ output.done
    /\ Len(input.arg.fred_observations) = 3
    /\ input.arg.fred_observations[1].value = Some(".")
    /\ input.arg.fred_observations[2].value = Some("0")
    /\ input.arg.fred_observations[3].value = Some("abc")
    /\ Len(output.value) = 3
    /\ output.value[1].value = None
    /\ output.value[2].value = Some(0)
    /\ output.value[3].value = None

\* C29 as stated: transform_fred_series fails when the id or the title is
\* absent or empty and otherwise returns a descriptor with that id and that
\* title; observation_start is the parsed date, or None when the field is
\* missing or malformed.
C29_DescriptorOrError ==
    (input.fn = "transform_series_info" /\ output.done) =>
        LET raw == input.arg
        IN  IF raw.id \in {None, Some("")} \/ raw.title \in {None, Some("")}
            THEN output.value = None
            ELSE /\ output.value # None
                 /\ output.value[1].series_id = raw.id[1]
                 /\ output.value[1].title = raw.title[1]
                 /\ output.value[1].observation_start =
                       IF raw.observation_start = Some("2024-01-01") THEN Some(1) ELSE None

\* C29, corrected: transform_fred_series fails when the id is absent or
\* empty or the title is absent, empty or blank, and otherwise returns a
\* descriptor with that id and with the title stripped of the whitespace
\* around it and cut to its first 500 characters; observation_start is the
\* parsed date, or None when the field is missing or malformed.
C29_StrippedDescriptorOrError ==
    (input.fn = "transform_series_info" /\ output.done) =>
        LET raw == input.arg
        IN  IF raw.id \in {None, Some("")} \/ raw.title \in {None, Some(""), Some("   ")}
            THEN output.value = None
            ELSE /\ output.value # None
                 /\ output.value[1].series_id = raw.id[1]
                 /\ Len(output.value[1].title) <= 500
                 /\ output.value[1].title =
                       CASE raw.title = Some("  Gross Domestic Product ")
                                -> "Gross Domestic Product"
                         [] raw.title = Some(X500 \o "y") -> X500
                         [] OTHER -> raw.title[1]
                 /\ output.value[1].observation_start =
                       IF raw.observation_start = Some("2024-01-01") THEN Some(1) ELSE None

C29_Witness ==
    /\ input.fn = "transform_series_info"
    /\ output.done
    /\ input.arg.id = Some("GDP")
    /\ input.arg.title = Some("  Gross Domestic Product ")
    /\ input.arg.observation_start = Some("1947-13-01")
    /\ output.value # None
    /\ output.value[1].title = "Gross Domestic Product"
    /\ output.value[1].observation_start = None

\* C30 (validate_series_data): the verdict is TRUE exactly when the dict has
\* a non-empty series_id of at most 50 characters and a non-empty title, and
\* the dict is after the call what it was before.
C30_ValidSeriesIff ==
    (input.fn = "validate_series_data" /\ output.done) =>
        LET d == input.arg
        IN  /\ output.value.verdict \in BOOLEAN
            /\ output.value.verdict <=>
                  /\ "series_id" \in DOMAIN d
                  /\ "title" \in DOMAIN d
                  /\ d["series_id"] \in {"GDP", X50}
                  /\ d["title"] = "Gross Domestic Product"
            /\ output.value.series_data = d

C30_Witness ==
    /\ input.fn = "validate_series_data"
    /\ output.done
    /\ DOMAIN input.arg = {"series_id", "title"}
    /\ input.arg["series_id"] = X50 \o "y"
    /\ input.arg["title"] = "Gross Domestic Product"
    /\ ~output.value.verdict

\* The rows of `after` that `before` does not have.
InsertedRows(before, after) ==
    { o \in after : \A b \in before : b.id # o.id }

\* C31 (reported counts match durable writes): the observations_added of
\* every ingest_series run equals the number of observation rows the run
\* left inserted, a run that failed (its upsert transaction rolled back, a
\* failure at COMMIT included) reports 0 added and 0 updated, and the run's
\* ledger row carries the counts of its result.
C31_CountsMatchWrites ==
    \A i \in DOMAIN runs :
        LET r == runs[i] IN
        /\ r.result.observations_added =
              Cardinality(InsertedRows(r.before.obs, r.after.obs))
        /\ ~r.result.success =>
              r.result.observations_added = 0 /\ r.result.observations_updated = 0
        /\ AppendedOne(r) =>
              /\ LastLedgerRow(r).records_added = r.result.observations_added
              /\ LastLedgerRow(r).records_updated = r.result.observations_updated

\* C32 (count conservation): for every successful ingest_series run,
\* observations_added + observations_updated is the number of fetched
\* observations that survived transformation and validation, and
\* observations_added is the number of distinct (series_id,
\* observation_date) keys of that batch that were not stored when the run
\* began.
C32_CountConservation ==
    \A i \in DOMAIN runs :
        LET r == runs[i]
            b == RunBatch(r)
        IN  r.result.success =>
              /\ r.result.observations_added + r.result.observations_updated = Len(b)
              /\ r.result.observations_added =
                    Cardinality(Keys(Range(b)) \ Keys(r.before.obs))

C32_Witness ==
    \E i, j \in DOMAIN runs :
        /\ runs[i].result.success
        /\ Len(runs[i].fetched.observations[1]) = 2
        /\ Len(RunBatch(runs[i])) = 1
        /\ runs[i].result.observations_added = 1
        /\ runs[i].result.observations_updated = 0
        /\ j > i
        /\ runs[j].result.success
        /\ Len(RunBatch(runs[j])) = 2
        /\ runs[j].result.observations_added = 0
        /\ runs[j].result.observations_updated = 2

\* The batch holds two points of one key.
RepeatedKey(b, k) ==
    \E i, j \in DOMAIN b : i < j /\ Key(b[i]) = k /\ Key(b[j]) = k

\* C33 (duplicate keys inside one batch): when a batch committed by
\* _upsert_observations holds two points of one key, exactly one row of
\* that key exists after the commit and it has the value, realtime_start
\* and realtime_end of the later point; of the points of a key that was not
\* stored only the first is counted as added, every other point of the
\* batch as updated.
C33_DuplicateInBatch ==
    \A i \in DOMAIN txns :
        LET t == txns[i] IN
        (\E k \in Keys(Range(t.batch)) : RepeatedKey(t.batch, k)) =>
            /\ \A k \in Keys(Range(t.batch)) :
                  RepeatedKey(t.batch, k) =>
                      \E r \in t.after :
                          /\ Key(r) = k
                          /\ \A o \in t.after : Key(o) = k => o = r
                          /\ r.value = LastFor(t.batch, k).value
                          /\ r.realtime_start = LastFor(t.batch, k).realtime_start
                          /\ r.realtime_end = LastFor(t.batch, k).realtime_end
            /\ t.added = Cardinality(Keys(Range(t.batch)) \ Keys(t.before))
            /\ t.updated = Len(t.batch) - t.added

C33_Witness ==
    \E i \in DOMAIN txns :
        LET t == txns[i] IN
        /\ Len(t.batch) = 2
        /\ Key(t.batch[1]) = Key(t.batch[2])
        /\ t.batch[1].value = Some(100)
        /\ t.batch[2].value = Some(105)
        /\ t.batch[2].realtime_end # t.batch[1].realtime_end
        /\ Key(t.batch[1]) \notin Keys(t.before)
        /\ t.added = 1
        /\ t.updated = 1
        /\ \E r \in obs : Key(r) = Key(t.batch[1]) /\ r.value = Some(105)

\* C34 (update frame): every observation row stored before a committed
\* upsert is stored after it with the id, series_id, observation_date and
\* created_at it had, so that over any number of upserts a row keeps what
\* its insertion gave these four columns; only value, realtime_start and
\* realtime_end change.
C34_UpdateFrame ==
    \A i \in DOMAIN txns :
        \A r \in txns[i].before :
            \E o \in txns[i].after :
                /\ o.id = r.id
                /\ o.series_id = r.series_id
                /\ o.observation_date = r.observation_date
                /\ o.created_at = r.created_at

C34_Witness ==
    \E i \in DOMAIN txns :
        \E r \in txns[i].before, o \in txns[i].after, b \in Range(txns[i].batch) :
            /\ Key(b) = Key(r)
            /\ b.created_at # r.created_at
            /\ o.id = r.id
            /\ o.value # r.value
            /\ o.realtime_start # r.realtime_start
            /\ o.created_at = r.created_at
            /\ o \in obs

\* C35 (referential integrity): in every state reached by ingest runs, the
\* series_id of every stored observation row is the series_id of a stored
\* series row.
C35_ReferentialIntegrity ==
    \A o \in obs : \E s \in series : s.series_id = o.series_id

\* C35 witness: observations of one series are stored, and a run of the
\* other series has ended without its descriptor stored and has left no
\* observation of that series.
C35_Witness ==
    /\ \E o \in obs : o.series_id = "GDP"
    /\ \E i \in DOMAIN runs :
          /\ runs[i].series_id = "UNRATE"
          /\ ~runs[i].result.success
          /\ \A s \in series : s.series_id # "UNRATE"
          /\ \A o \in obs : o.series_id # "UNRATE"

\* C36 (the metadata skip does not skip the observation sync): a run with
\* update_existing = FALSE for a stored series, its metadata stage not
\* having failed, leaves the series table as it was, reports series_added =
\* FALSE and asks the source for the full observation history; when it
\* succeeds it made both fetches and the stored observations are those of
\* before with every fetched point's value and validity window in place
\* and the fetched new dates added.
C36_SkipStillSyncs ==
    \A i \in DOMAIN runs :
        LET r == runs[i] IN
        (/\ ~r.update_existing
         /\ \E s \in r.before.series : s.series_id = r.series_id
         /\ ~MetadataFailed(r)) =>
            /\ r.after.series = r.before.series
            /\ ~r.result.series_added
            /\ r.fetched.start_date = <<None>>
            /\ r.result.success =>
                  /\ r.fetched.observations # None
                  /\ r.result.api_calls_used = 2
                  /\ ObsContent(r.after.obs) = ExpectedObs(r.before, r)

C36_Witness ==
    \E i \in DOMAIN runs :
        LET r == runs[i] IN
        /\ ~r.update_existing
        /\ \E s \in r.before.series :
              /\ s.series_id = r.series_id
              /\ s.title = "Gross Domestic Product"
              /\ s \in series
        /\ r.fetched.series # None
        /\ r.fetched.series[1].title = Some("GDP (revised title)")
        /\ r.result.success
        /\ Cardinality(r.before.obs) = 1
        /\ \E o \in r.before.obs : o.observation_date = Some(1) /\ o.value = Some(100)
        /\ r.result.observations_added = 1
        /\ r.result.observations_updated = 1
        /\ Cardinality(obs) = 2
        /\ \A o \in obs : o.value = Some(105)

\* The fetch calls a finished run made: fetch_series_info always, and
\* fetch_observations when the run came to STEP 4.
FetchCallsMade(r) ==
    IF r.fetched.start_date # <<>> THEN 2 ELSE 1

\* C37 (external calls consumed): the api_calls_used of every ingest_series
\* run, in its result and in its ledger row, is the number of fetch calls
\* the run made, a call that failed included; it is 0, 1 or 2, and 2 for
\* every run that came to the observation fetch.
C37_ApiCallsCounted ==
    \A i \in DOMAIN runs :
        LET r == runs[i] IN
        /\ r.result.api_calls_used \in 0..2
        /\ r.result.api_calls_used = FetchCallsMade(r)
        /\ r.fetched.start_date # <<>> => r.result.api_calls_used = 2
        /\ AppendedOne(r) =>
              LastLedgerRow(r).api_calls_used = r.result.api_calls_used

\* The duplicate-removal steps taken so far: what the table held before and
\* after each.
Dedups ==
    (IF mig.dedup # None THEN {mig.dedup[1]} ELSE {})
      \cup { migs[i].dedup[1] : i \in { j \in DOMAIN migs : migs[j].dedup # None } }

\* C38 (deduplication pass): the duplicate-removal step of
\* add_unique_constraint leaves of every key that had rows exactly one row,
\* the one with the highest id, deletes no row whose key was unique and
\* adds none, so that afterwards no two rows share a key; a run that
\* commits leaves the table so.
C38_DeduplicationPass ==
    /\ \A d \in Dedups :
          /\ d.after \subseteq d.before
          /\ \A k \in Keys(d.before) :
                \E r \in d.after :
                    /\ Key(r) = k
                    /\ \A o \in d.before : Key(o) = k => o.id <= r.id
                    /\ \A o \in d.after : Key(o) = k => o = r
          /\ \A r \in d.before :
                (\A o \in d.before : Key(o) = Key(r) => o = r) => r \in d.after
          /\ \A r1, r2 \in d.after : Key(r1) = Key(r2) => r1 = r2
          /\ d.deleted_count = Cardinality(d.before \ d.after)
    /\ \A i \in DOMAIN migs :
          migs[i].outcome = "committed" => migs[i].end.obs = migs[i].dedup[1].after

C38_Witness ==
    \E i \in DOMAIN migs :
        /\ migs[i].outcome = "committed"
        /\ Cardinality(migs[i].start.obs) = 3
        /\ Cardinality(Keys(migs[i].start.obs)) = 2
        /\ migs[i].dedup[1].deleted_count = 1
        /\ \E r \in obs : r.id = 3 /\ r.observation_date = Some(1)
        /\ \E r \in obs : r.id = 2 /\ r.observation_date = Some(2)
        /\ Cardinality(obs) = 2
        /\ uniq

\* C39 (the migration is idempotent): an add_unique_constraint run that
\* starts when a previous run has added its constraint finds the
\* constraint, ends without an error and leaves the table and its
\* constraints as they were.
C39_MigrationIdempotent ==
    \A i \in DOMAIN migs :
        constraint_name \in migs[i].start.constraints =>
            /\ migs[i].outcome = "exists"
            /\ migs[i].error = None
            /\ migs[i].end = migs[i].start
====
